---- MODULE Spec2Model ----
(***************************************************************************)
(* Aisle Studio front end: the branch/version state machine of chat.js and *)
(* the generation session of app.js (App.generateResponse), together with  *)
(* the asynchronous saveChat() promises that sit between them.             *)
(*                                                                         *)
(* Array indexes are the 0-based indexes of the JavaScript source; a       *)
(* sequence element i of the source is element i + 1 of the TLA+ sequence. *)
(***************************************************************************)
EXTENDS Integers, Sequences, FiniteSets, TLC

\* ---------------------------------------------------------------- bounds
\* Handler calls by the user (clicks, key presses) that take effect in one behaviour.
MaxActions == 2
\* Longest conversation the anchor resolution is tried on.
MaxLen == 4
\* The answer fragments the delta records of one response carry, in order
\* ("Hel" then "lo" gives "Hello").
Stream == <<"Hel", "lo">>
\* Text typed by the user into the prompt box or the edit box.
UserText == <<"hi">>
EditedText == <<"edited">>

\* ---------------------------------------------------------------- values
\* A Message {id, role, content}; content is the sequence of text pieces
\* whose concatenation is the string.
Msg(id, role, content) == [id |-> id, role |-> role, content |-> content]

\* branchState with no BranchPoint.
NoBranchState == [a \in {} |-> 0]

\* ---------------------------------------------------------------- array helpers
\* Array.prototype.findIndex(m => m.id === id): first index, or -1.
\* Variant that answers 0 when nothing is found.
FindIndexOrFirst(msgs, id) ==
  IF \E i \in 1..Len(msgs) : msgs[i].id = id
  THEN (CHOOSE i \in 1..Len(msgs) :
          msgs[i].id = id /\ \A j \in 1..(i - 1) : msgs[j].id # id) - 1
  ELSE 0

FindIndex(msgs, id) ==
  IF \E i \in 1..Len(msgs) : msgs[i].id = id
  THEN (CHOOSE i \in 1..Len(msgs) :
          msgs[i].id = id /\ \A j \in 1..(i - 1) : msgs[j].id # id) - 1
  ELSE -1

\* Array.prototype.slice(0, n). Off-by-one variant: one element short.
SliceToOneShort(msgs, n) == SubSeq(msgs, 1, n - 1)

SliceTo(msgs, n) == SubSeq(msgs, 1, n)

\* Array.prototype.slice(n)
SliceFrom(msgs, n) == SubSeq(msgs, n + 1, Len(msgs))

\* Array.prototype.filter(m => m.id !== id)
RECURSIVE FilterOut(_, _)
FilterOut(msgs, id) ==
  IF msgs = <<>> THEN <<>>
  ELSE IF Head(msgs).id = id THEN FilterOut(Tail(msgs), id)
       ELSE <<Head(msgs)>> \o FilterOut(Tail(msgs), id)

\* Array.prototype.splice(i, 1) on a sequence.
\* Variant that removes the first element whatever i is.
RemoveFirst(s, i) == Tail(s)

RemoveAt(s, i) == SubSeq(s, 1, i) \o SubSeq(s, i + 2, Len(s))

Max(a, b) == IF a >= b THEN a ELSE b

\* ---------------------------------------------------------------- chat.js, pure parts
\* The while loop of _resolveRerunAnchorIndex: extend endIdx over the
\* contiguous block of user messages that follows it.
RECURSIVE ExtendUserRun(_, _)
ExtendUserRun(msgs, endIdx) ==
  IF endIdx + 1 < Len(msgs) /\ msgs[endIdx + 2].role = "user"
  THEN ExtendUserRun(msgs, endIdx + 1)
  ELSE endIdx

\* The same function with the loop left out: the anchor of a user message is
\* that message itself.
resolveRerunAnchorIndexNoRun(msgs, msgId) ==
  LET idx == FindIndex(msgs, msgId) IN
  IF idx = -1 THEN -1
  ELSE IF msgs[idx + 1].role \in {"model", "assistant"} THEN idx - 1
       ELSE idx

\* Chat._resolveRerunAnchorIndex(msgId): index of the anchor, negative if none.
resolveRerunAnchorIndex(msgs, msgId) ==
  LET idx == FindIndex(msgs, msgId) IN
  IF idx = -1 THEN -1
  ELSE IF msgs[idx + 1].role \in {"model", "assistant"} THEN idx - 1
       ELSE ExtendUserRun(msgs, idx)

\* App._clone: structural deep copy. Values carry no identity here, so the
\* copy of a value is that value.
clone(x) == x

\* App.getBranchPoint(anchorId) is truthy.
hasBranchPoint(bs, anchorId) == anchorId \in DOMAIN bs

\* A Branch {id, tail}; the id is an opaque label that no handler reads.
Branch(tail) == [tail |-> tail]

\* `oldTail`: what follows the anchor when the BranchPoint forms. Variant that
\* captures nothing.
captureOldTailNone(msgs, anchorIdx) == <<>>

captureOldTail(msgs, anchorIdx) ==
  IF anchorIdx >= 0 THEN clone(SliceFrom(msgs, anchorIdx + 1)) ELSE <<>>

\* Chat._ensureBranchPoint(anchorId): the branchState after the call.
ensureBranchPoint(bs, msgs, anchorId) ==
  IF hasBranchPoint(bs, anchorId) THEN bs
  ELSE LET anchorIdx == FindIndex(msgs, anchorId)
       IN [a \in DOMAIN bs \cup {anchorId} |->
             IF a = anchorId
             THEN [active |-> 0, branches |-> <<Branch(captureOldTail(msgs, anchorIdx))>>]
             ELSE bs[a]]

\* The live sequence a branch activation installs: [...slice(0, anchorIdx + 1), ...tail].
\* Off-by-one variant: the anchor itself is cut off.
spliceTailDropAnchor(msgs, anchorIdx, tail) == SliceTo(msgs, anchorIdx) \o tail

spliceTail(msgs, anchorIdx, tail) == SliceTo(msgs, anchorIdx + 1) \o tail

\* point.branches[point.active].tail || [] ; reading .tail of a missing branch
\* throws, which the handlers below treat as the handler stopping there.
activeBranchExists(point) == point.active >= 0 /\ point.active < Len(point.branches)

activeTail(point) == point.branches[point.active + 1].tail

\* branchRerunFrom: point.active = point.branches.length - 1 after the push.
\* Off-by-one variant: the length itself.
activeAfterPushNoMinus(branches) == Len(branches)

activeAfterPush(branches) == Len(branches) - 1

\* shiftBranch: `const next = point.active + delta`.
\* Variant that wraps around the ends.
shiftTargetWrap(point, delta) == (point.active + delta) % Len(point.branches)

shiftTarget(point, delta) == point.active + delta

\* deleteActiveBranch's early return `point.branches.length <= 1`.
\* Variant that lets the sole branch go.
deleteRefusedStrict(point) == Len(point.branches) < 1

deleteRefused(point) == Len(point.branches) <= 1

\* Guard `App.isGenerating` of rerunFrom, branchRerunFrom, shiftBranch,
\* appendMessage. deleteActiveBranch has no such guard.
busyRefused(generating) == generating

\* generateResponse's first line: `if (!this.currentChat || this.isGenerating) return;`
\* Variant without the test.
generateRefusedNever(generating) == FALSE

generateRefused(generating) == generating

\* `.then(callback)` on the promise of saveChat(): the callback runs only when
\* the promise is fulfilled. Variant: the callback runs however the promise settles.
callbackRunsAlways(state) == state \in {"fulfilled", "rejected"}

callbackRuns(state) == state = "fulfilled"

\* ---------------------------------------------------------------- state
VARIABLES
  messages,         \* App.currentChat.messages, the live message sequence
  branchState,      \* anchor id -> BranchPoint {active, branches}
  isGenerating,     \* App.isGenerating
  abortController,  \* App.abortController: 0 (null) or the session it aborts
  saves,            \* saveChat() promises not yet settled and consumed
  sessions,         \* the generateResponse() calls that have not returned yet
  server,           \* the persisted conversation
  nextId,           \* next value of crypto.randomUUID()
  lastOp,           \* the handler that ran last, with its arguments
  actions,          \* how many user handler calls have taken effect
  net,              \* the response of the generation request: status, bytes not yet read
  chat,             \* Chat's streaming fields and the streaming area of the DOM
  now,              \* the clock, in milliseconds
  fit,              \* the call of Chat._prepareImageForUpload in progress
  heap              \* message objects by reference: who points to which object

vars == <<messages, branchState, isGenerating, abortController, saves, sessions,
          server, nextId, lastOp, actions, net, chat, now, fit, heap>>

\* What the branch handlers and the save promises never touch.
streamVars == <<net, chat, now, fit, heap>>

Op(op, id, d) == [op |-> op, id |-> id, d |-> d]

\* A File, reduced to what the fitter reads: where it came from and its size;
\* `quality` is the JPEG quality (in hundredths) a resized file was encoded at.
File(kind, size, quality) == [kind |-> kind, size |-> size, quality |-> quality]

\* null where a File is expected.
NoFile == File("null", 0, 0)

\* No call of the image fitter in progress.
NoFit == [pc |-> "idle"]

\* References are not followed: messages are held by value.
NoHeap == [objs |-> <<>>]

\* No response in flight.
NoResponse == [status |-> 0, bytes |-> <<>>, sent |-> <<>>]

\* _pendingStream: null
NoPending == [msgId |-> 0, content |-> <<>>, thoughts |-> <<>>]

\* The streaming area of the DOM: what it shows, and for streamed text which text.
Area(kind, content, thoughts) == [kind |-> kind, content |-> content, thoughts |-> thoughts]

\* Chat's streaming fields as declared (null is 0 for the timer, FALSE for the
\* scroll handler); renderLog is the time of every streamed render so far.
ChatIdle ==
  [pendingStream |-> NoPending, streamRenderTimer |-> 0, userScrolledUp |-> FALSE,
   scrollHandler |-> FALSE, area |-> Area("none", <<>>, <<>>), renderLog |-> <<>>]

\* The conversation the program starts from: one exchange [U1, M1].
InitChat == <<Msg(1, "user", UserText), Msg(2, "model", <<"Hel", "lo">>)>>

Init ==
  /\ messages = InitChat
  /\ branchState = NoBranchState
  /\ isGenerating = FALSE
  /\ abortController = 0
  /\ saves = <<>>
  /\ sessions = <<>>
  /\ server = [messages |-> messages, branchState |-> NoBranchState]
  /\ nextId = 3
  /\ lastOp = Op("init", 0, 0)
  /\ actions = 0
  /\ net = NoResponse
  /\ chat = ChatIdle
  /\ now = 0
  /\ fit = NoFit
  /\ heap = NoHeap

\* Every id handed out so far: what a stale DOM can still pass to a handler.
KnownIds == 1..(nextId - 1)

\* A user handler call that takes effect.
Acted(op, id, d) ==
  /\ actions < MaxActions
  /\ actions' = actions + 1
  /\ lastOp' = Op(op, id, d)

\* A user handler call that returns early: nothing is touched.
Refused == UNCHANGED vars

\* App.saveChat(): the request body is serialised when the call is made; the
\* promise settles later. `next` is what the caller chained on it, `mode` and
\* `anchorId` are the caller's pendingRerunContext.
saveChat(msgs, bs, next, mode, anchorId) ==
  Append(saves, [snap |-> [messages |-> msgs, branchState |-> bs],
                 next |-> next, mode |-> mode, anchorId |-> anchorId,
                 state |-> "pending"])

\* ---------------------------------------------------------------- chat.js handlers
\* Chat.rerunFrom(msgId)
rerunFrom(msgId) ==
  LET anchorIdx == resolveRerunAnchorIndex(messages, msgId) IN
  IF busyRefused(isGenerating) \/ anchorIdx < 0
  THEN Refused
  ELSE LET anchorId == messages[anchorIdx + 1].id
           bs == ensureBranchPoint(branchState, messages, anchorId)
           point == bs[anchorId]
       IN /\ Acted("rerunFrom", msgId, 0)
          /\ messages' = SliceTo(messages, anchorIdx + 1)
          /\ branchState' =
               [bs EXCEPT ![anchorId].branches[point.active + 1].tail = <<>>]
          /\ saves' = saveChat(messages', branchState', "generate", "overwrite", anchorId)
          /\ UNCHANGED <<isGenerating, abortController, sessions, server, nextId>>

\* Chat.branchRerunFrom(msgId)
branchRerunFrom(msgId) ==
  LET anchorIdx == resolveRerunAnchorIndex(messages, msgId) IN
  IF busyRefused(isGenerating) \/ anchorIdx < 0
  THEN Refused
  ELSE LET anchorId == messages[anchorIdx + 1].id
           bs == ensureBranchPoint(branchState, messages, anchorId)
           pushed == Append(bs[anchorId].branches, Branch(<<>>))
       IN /\ Acted("branchRerunFrom", msgId, 0)
          /\ branchState' =
               [bs EXCEPT ![anchorId] =
                  [active |-> activeAfterPush(pushed), branches |-> pushed]]
          /\ messages' = SliceTo(messages, anchorIdx + 1)
          /\ saves' = saveChat(messages', branchState', "generate", "branch", anchorId)
          /\ UNCHANGED <<isGenerating, abortController, sessions, server, nextId>>

\* Chat.shiftBranch(anchorId, delta)
shiftBranch(anchorId, delta) ==
  IF busyRefused(isGenerating) \/ ~hasBranchPoint(branchState, anchorId)
  THEN Refused
  ELSE LET point == branchState[anchorId]
           next == shiftTarget(point, delta)
       IN IF next < 0 \/ next >= Len(point.branches)
          THEN Refused
          ELSE LET anchorIdx == FindIndex(messages, anchorId) IN
               /\ Acted("shiftBranch", anchorId, delta)
               /\ branchState' = [branchState EXCEPT ![anchorId].active = next]
               /\ IF anchorIdx = -1
                  THEN UNCHANGED <<messages, saves>>
                  ELSE /\ messages' =
                            spliceTail(messages, anchorIdx,
                                       clone(activeTail(branchState'[anchorId])))
                       /\ saves' = saveChat(messages', branchState', "render", "shift", anchorId)
               /\ UNCHANGED <<isGenerating, abortController, sessions, server, nextId>>

\* Chat.deleteActiveBranch(anchorId)
deleteActiveBranch(anchorId) ==
  IF ~hasBranchPoint(branchState, anchorId)
  THEN Refused
  ELSE IF deleteRefused(branchState[anchorId])
  THEN Refused
  ELSE LET point == branchState[anchorId]
           deleteIdx == point.active
           spliced == RemoveAt(point.branches, deleteIdx)
           after == [active |-> Max(0, deleteIdx - 1), branches |-> spliced]
           anchorIdx == FindIndex(messages, anchorId)
       IN /\ Acted("deleteActiveBranch", anchorId, 0)
          /\ branchState' = [branchState EXCEPT ![anchorId] = after]
          /\ IF anchorIdx # -1 /\ ~activeBranchExists(after)
             THEN \* TypeError reading .tail: the handler stops, nothing is saved
                  UNCHANGED <<messages, saves>>
             ELSE /\ messages' =
                       IF anchorIdx # -1
                       THEN spliceTail(messages, anchorIdx, clone(activeTail(after)))
                       ELSE messages
                  /\ saves' = saveChat(messages', branchState', "render", "delete", anchorId)
          /\ UNCHANGED <<isGenerating, abortController, sessions, server, nextId>>

\* ---------------------------------------------------------------- app.js handlers
\* The turn menu's "delete": Chat.handleTurnAction returns unless the message is
\* live, then App.deleteMessage(msgId) filters it out and saves.
deleteMessage(msgId) ==
  IF FindIndex(messages, msgId) = -1
  THEN Refused
  ELSE /\ Acted("deleteMessage", msgId, 0)
       /\ messages' = FilterOut(messages, msgId)
       /\ saves' = saveChat(messages', branchState, "render", "edit", 0)
       /\ UNCHANGED <<branchState, isGenerating, abortController, sessions, server, nextId>>

\* Chat.stopEdit -> App.updateMessage(msgId, newContent)
updateMessage(msgId) ==
  LET idx == FindIndex(messages, msgId) IN
  IF idx = -1
  THEN Refused
  ELSE /\ Acted("updateMessage", msgId, 0)
       /\ messages' = [messages EXCEPT ![idx + 1].content = EditedText]
       /\ saves' = saveChat(messages', branchState, "render", "edit", 0)
       /\ UNCHANGED <<branchState, isGenerating, abortController, sessions, server, nextId>>

\* addUserTurn(content, files): one user message per file, then one for the text.
addUserTurn(msgs, nfiles, hasText) ==
  LET withFiles == IF nfiles = 1 THEN Append(msgs, Msg(nextId, "user", <<>>)) ELSE msgs
  IN IF hasText THEN Append(withFiles, Msg(nextId + nfiles, "user", UserText))
     ELSE withFiles

\* App.stopGeneration() and what the aborted fetch/read does next: the catch
\* clause sees an AbortError (hadError stays false), the finally clause clears
\* the session flag and, hadError being false, re-fetches the conversation.
\* The server may or may not have appended what it had generated.
stopGeneration ==
  /\ abortController # 0
  /\ \E s \in 1..Len(sessions) :
       /\ sessions[s].msgId = abortController
       /\ Acted("stopGeneration", abortController, 0)
       /\ isGenerating' = FALSE
       /\ abortController' = 0
       /\ sessions' = [sessions EXCEPT ![s].pc = "resync", ![s].cancelled = TRUE]
       /\ \/ UNCHANGED <<server, nextId>>
          \/ /\ server' = [server EXCEPT !.messages =
                             Append(@, Msg(nextId, "model", sessions[s].acc))]
             /\ nextId' = nextId + 1
  /\ UNCHANGED <<messages, branchState, saves>>

\* submitMessage(): while generating the Run button is the Stop button.
submitMessage(nfiles, hasText) ==
  IF isGenerating
  THEN stopGeneration
  ELSE IF nfiles = 0 /\ ~hasText
  THEN Refused
  ELSE /\ Acted("submitMessage", nfiles, IF hasText THEN 1 ELSE 0)
       /\ messages' = addUserTurn(messages, nfiles, hasText)
       /\ nextId' = nextId + nfiles + (IF hasText THEN 1 ELSE 0)
       /\ saves' = saveChat(messages', branchState, "generate", "submit", 0)
       /\ UNCHANGED <<branchState, isGenerating, abortController, sessions, server>>

\* appendMessage() (Alt+Enter): the same without generation.
appendMessage(nfiles, hasText) ==
  IF busyRefused(isGenerating) \/ (nfiles = 0 /\ ~hasText)
  THEN Refused
  ELSE /\ Acted("appendMessage", nfiles, IF hasText THEN 1 ELSE 0)
       /\ messages' = addUserTurn(messages, nfiles, hasText)
       /\ nextId' = nextId + nfiles + (IF hasText THEN 1 ELSE 0)
       /\ saves' = saveChat(messages', branchState, "render", "append", 0)
       /\ UNCHANGED <<branchState, isGenerating, abortController, sessions, server>>

\* ---------------------------------------------------------------- saveChat() settling
\* The PUT reaches the server and the promise is fulfilled. A caller that only
\* re-renders afterwards is done with it.
saveFulfilled(k) ==
  /\ saves[k].state = "pending"
  /\ lastOp' = Op("io", 0, 0)
  /\ server' = saves[k].snap
  /\ saves' = IF saves[k].next = "render" THEN RemoveAt(saves, k - 1)
              ELSE [saves EXCEPT ![k].state = "fulfilled"]
  /\ UNCHANGED <<messages, branchState, isGenerating, abortController, sessions,
                 nextId, actions>>

\* App.api throws (the PUT or the chat-list GET failed): the promise is rejected.
\* The write may or may not have reached the store.
saveRejected(k) ==
  /\ saves[k].state = "pending"
  /\ lastOp' = Op("io", 0, 0)
  /\ \/ server' = server
     \/ server' = saves[k].snap
  /\ saves' = IF saves[k].next = "render" THEN RemoveAt(saves, k - 1)
              ELSE [saves EXCEPT ![k].state = "rejected"]
  /\ UNCHANGED <<messages, branchState, isGenerating, abortController, sessions,
                 nextId, actions>>

\* App.generateResponse() up to its first await: guard, flag, placeholder, request.
generateResponse(origin) ==
  IF generateRefused(isGenerating)
  THEN UNCHANGED <<messages, isGenerating, abortController, sessions, nextId>>
  ELSE /\ isGenerating' = TRUE
       /\ abortController' = nextId
       /\ messages' = Append(messages, Msg(nextId, "model", <<>>))
       /\ nextId' = nextId + 1
       /\ sessions' = Append(sessions,
            [pc |-> "fetch", msgId |-> nextId, acc |-> <<>>, hadError |-> FALSE,
             cancelled |-> FALSE, mode |-> origin.mode, anchorId |-> origin.anchorId,
             saved |-> origin.state])

\* The continuation chained on a settled saveChat() by rerunFrom, branchRerunFrom
\* and submitMessage: render, then App.generateResponse(). lastOp.d tells what
\* became of it: 1 a session started, 0 generateResponse refused, 2 never called.
saveCallback(k) ==
  /\ saves[k].state # "pending"
  /\ saves' = RemoveAt(saves, k - 1)
  /\ IF callbackRuns(saves[k].state)
     THEN /\ generateResponse(saves[k])
          /\ lastOp' = Op("saveCallback", saves[k].anchorId,
                          IF generateRefused(isGenerating) THEN 0 ELSE 1)
     ELSE /\ UNCHANGED <<messages, isGenerating, abortController, sessions, nextId>>
          /\ lastOp' = Op("saveCallback", saves[k].anchorId, 2)
  /\ UNCHANGED <<branchState, server, actions>>

\* ---------------------------------------------------------------- generateResponse, after the request
Running(s) == sessions[s].pc \in {"fetch", "stream"}

\* The finally clause of generateResponse up to its await: flag, handle, and
\* either the removal of the placeholder (hadError) or the re-fetch. A session
\* that has returned is dropped from `sessions`; lastOp.d keeps its last record.
finallyClause(op, s, hadError) ==
  /\ isGenerating' = FALSE
  /\ abortController' = 0
  /\ IF hadError
     THEN /\ messages' = FilterOut(messages, sessions[s].msgId)
          /\ sessions' = RemoveAt(sessions, s - 1)
          /\ lastOp' = Op(op, sessions[s].msgId,
                          [sessions[s] EXCEPT !.pc = "idle", !.hadError = TRUE])
     ELSE /\ messages' = messages
          /\ sessions' = [sessions EXCEPT ![s].pc = "resync"]
          /\ lastOp' = Op(op, sessions[s].msgId, 0)

\* `await fetch(...)` resolves: the response body is being read.
fetchResolved(s) ==
  /\ sessions[s].pc = "fetch"
  /\ lastOp' = Op("io", 0, 0)
  /\ sessions' = [sessions EXCEPT ![s].pc = "stream"]
  /\ UNCHANGED <<messages, branchState, isGenerating, abortController, saves, server,
                 nextId, actions>>

\* A delta record with an answer fragment: accContent += text.
streamDelta(s) ==
  /\ sessions[s].pc = "stream"
  /\ Len(sessions[s].acc) < Len(Stream)
  /\ lastOp' = Op("io", 0, 0)
  /\ sessions' = [sessions EXCEPT ![s].acc = Append(@, Stream[Len(@) + 1])]
  /\ UNCHANGED <<messages, branchState, isGenerating, abortController, saves, server,
                 nextId, actions>>

\* An error record: hadError, showStreamingError, return (through finally).
streamError(s) ==
  /\ sessions[s].pc = "stream"
  /\ finallyClause("streamError", s, TRUE)
  /\ UNCHANGED <<branchState, saves, server, nextId, actions>>

\* fetch or reader.read() rejects with something other than an AbortError.
networkFailure(s) ==
  /\ Running(s)
  /\ finallyClause("networkFailure", s, TRUE)
  /\ UNCHANGED <<branchState, saves, server, nextId, actions>>

\* reader.read() reports done: the loop ends, finally runs. By then the server
\* has appended the finished model message to the stored conversation.
streamDone(s) ==
  /\ sessions[s].pc = "stream"
  /\ finallyClause("streamDone", s, FALSE)
  /\ server' = [server EXCEPT !.messages =
                  Append(@, Msg(nextId, "model", sessions[s].acc))]
  /\ nextId' = nextId + 1
  /\ UNCHANGED <<branchState, saves, actions>>

\* The re-fetch of the finally clause returns: this.currentChat = <stored chat>.
resyncDone(s) ==
  /\ sessions[s].pc = "resync"
  /\ lastOp' = Op("resyncDone", sessions[s].msgId, [sessions[s] EXCEPT !.pc = "idle"])
  /\ messages' = server.messages
  /\ branchState' = server.branchState
  /\ sessions' = RemoveAt(sessions, s - 1)
  /\ UNCHANGED <<isGenerating, abortController, saves, server, nextId, actions>>

\* The re-fetch throws: `catch (e) { /* ignore */ }`.
resyncFailed(s) ==
  /\ sessions[s].pc = "resync"
  /\ lastOp' = Op("resyncFailed", sessions[s].msgId, [sessions[s] EXCEPT !.pc = "idle"])
  /\ sessions' = RemoveAt(sessions, s - 1)
  /\ UNCHANGED <<messages, branchState, isGenerating, abortController, saves, server,
                 nextId, actions>>

\* ---------------------------------------------------------------- specification
Next ==
  \/ \E m \in KnownIds : rerunFrom(m) /\ UNCHANGED streamVars
  \/ \E m \in KnownIds : branchRerunFrom(m) /\ UNCHANGED streamVars
  \/ \E a \in KnownIds, delta \in {-1, 1} : shiftBranch(a, delta) /\ UNCHANGED streamVars
  \/ \E a \in KnownIds : deleteActiveBranch(a) /\ UNCHANGED streamVars
  \/ \E m \in KnownIds : deleteMessage(m) /\ UNCHANGED streamVars
  \/ \E m \in KnownIds : updateMessage(m) /\ UNCHANGED streamVars
  \/ \E nfiles \in 0..1, hasText \in BOOLEAN : submitMessage(nfiles, hasText) /\ UNCHANGED streamVars
  \/ \E nfiles \in 0..1, hasText \in BOOLEAN : appendMessage(nfiles, hasText) /\ UNCHANGED streamVars
  \/ \E k \in 1..Len(saves) : saveFulfilled(k) /\ UNCHANGED streamVars
  \/ \E k \in 1..Len(saves) : saveRejected(k) /\ UNCHANGED streamVars
  \/ \E k \in 1..Len(saves) : saveCallback(k) /\ UNCHANGED streamVars
  \/ \E s \in 1..Len(sessions) : fetchResolved(s) /\ UNCHANGED streamVars
  \/ \E s \in 1..Len(sessions) : streamDelta(s) /\ UNCHANGED streamVars
  \/ \E s \in 1..Len(sessions) : streamError(s) /\ UNCHANGED streamVars
  \/ \E s \in 1..Len(sessions) : networkFailure(s) /\ UNCHANGED streamVars
  \/ \E s \in 1..Len(sessions) : streamDone(s) /\ UNCHANGED streamVars
  \/ \E s \in 1..Len(sessions) : resyncDone(s) /\ UNCHANGED streamVars
  \/ \E s \in 1..Len(sessions) : resyncFailed(s) /\ UNCHANGED streamVars

Spec == Init /\ [][Next]_vars

\* ---------------------------------------------------------------- anchor resolution alone
\* Conversations of every shape up to MaxLen messages, ids 1..n in order.
Roles == {"user", "model", "assistant"}

Conversations ==
  UNION { { [i \in 1..n |-> Msg(i, r[i], <<>>)] : r \in [1..n -> Roles] } : n \in 0..MaxLen }

InitAnchor ==
  /\ messages \in Conversations
  /\ branchState = NoBranchState
  /\ isGenerating = FALSE
  /\ abortController = 0
  /\ saves = <<>>
  /\ sessions = <<>>
  /\ server = [messages |-> messages, branchState |-> NoBranchState]
  /\ nextId = Len(messages) + 1
  /\ lastOp = Op("init", 0, 0)
  /\ actions = 0
  /\ net = NoResponse
  /\ chat = ChatIdle
  /\ now = 0
  /\ fit = NoFit
  /\ heap = NoHeap

\* A rerun or branch action on message msgId resolves its anchor; lastOp.d is
\* the index returned.
resolveAnchor(msgId) ==
  /\ lastOp' = Op("resolveRerunAnchorIndex", msgId, resolveRerunAnchorIndex(messages, msgId))
  /\ UNCHANGED <<messages, branchState, isGenerating, abortController, saves, sessions,
                 server, nextId, actions>>

NextAnchor == \E msgId \in 1..(MaxLen + 1) : resolveAnchor(msgId) /\ UNCHANGED streamVars

SpecAnchor == InitAnchor /\ [][NextAnchor]_vars

\* ---------------------------------------------------------------- the response stream
\* Lines in one response body.
MaxLines == 3
\* Lines in one response body where progress is checked.
MaxFairLines == 2
\* The delay of the render timer: setTimeout(..., 80).
ThrottleInterval == 80

\* A parsed JSON payload, reduced to the fields the client reads; "" and <<>>
\* stand for an absent field.
Json(error, choices) == [error |-> error, choices |-> choices]

Delta(content, reasoning, reasoning_content, thinking) ==
  [delta |-> [content |-> content, reasoning |-> reasoning,
              reasoning_content |-> reasoning_content, thinking |-> thinking]]

\* What follows "data: " on a line: the terminator, text that is not JSON, or JSON.
Payload(kind, data) == [kind |-> kind, data |-> data]

\* One line of the body without its newline: "event: <name>", "data: <payload>",
\* the empty line, or a line with neither prefix.
Line(t, name, payload) == [t |-> t, name |-> name, payload |-> payload]

NoPayload == Payload("none", Json("", <<>>))
BlankLine == Line("blank", "", NoPayload)
OtherLine == Line("other", "", NoPayload)
EventLine(name) == Line("event", name, NoPayload)
DataLine(payload) == Line("data", "", payload)
DoneLine == DataLine(Payload("done", Json("", <<>>)))
MalformedLine == DataLine(Payload("text", Json("", <<>>)))
JsonLine(data) == DataLine(Payload("json", data))
ContentLine(text) == JsonLine(Json("", <<Delta(text, "", "", "")>>))

\* The lines a body is made of here: an error event, a blank line, a comment,
\* the terminator, a malformed record, an error record, a record without
\* choices, two answer fragments and one reasoning fragment under each alias.
BodyLines ==
  { EventLine("error"), BlankLine, OtherLine, DoneLine, MalformedLine,
    JsonLine(Json("boom", <<>>)), JsonLine(Json("", <<>>)),
    ContentLine("Hel"), ContentLine("lo"),
    JsonLine(Json("", <<Delta("", "hm", "", "")>>)),
    JsonLine(Json("", <<Delta("", "", "hm", "")>>)),
    JsonLine(Json("", <<Delta("", "", "", "hm")>>)) }

Bodies == UNION { [1..n -> BodyLines] : n \in 0..MaxLines }

\* The bodies the progress of a session is checked on.
FairBodies == UNION { [1..n -> BodyLines] : n \in 0..MaxFairLines }

\* The bytes of a body, as the pieces a read can cut it into: every non-empty
\* line is two pieces of text followed by the newline.
Piece(l, part) == [nl |-> FALSE, l |-> l, part |-> part]
NL == [nl |-> TRUE, l |-> BlankLine, part |-> 0]

Encode(line) == IF line = BlankLine THEN <<NL>> ELSE <<Piece(line, 1), Piece(line, 2), NL>>

RECURSIVE Bytes(_)
Bytes(lines) == IF lines = <<>> THEN <<>> ELSE Encode(Head(lines)) \o Bytes(Tail(lines))

\* The line a run of pieces between two newlines spells. Both pieces of a
\* line spell that line; a line cut short is a data line whose payload is not
\* JSON if it begins like a data line, else a line with no known prefix.
lineOf(pieces) ==
  IF pieces = <<>> THEN BlankLine
  ELSE IF Len(pieces) = 2 /\ pieces[1].l = pieces[2].l
                          /\ pieces[1].part = 1 /\ pieces[2].part = 2
  THEN pieces[1].l
  ELSE IF pieces[1].part = 1 /\ pieces[1].l.t = "data" THEN MalformedLine
  ELSE OtherLine

\* `buffer = lines.pop()`: the unfinished last line stays in the buffer.
\* Variant that starts every chunk with an empty buffer.
unfinishedDropped(rest) == <<>>

unfinished(rest) == rest

\* buffer.split('\n') followed by lines.pop(): the complete lines, and the
\* unfinished rest that stays in the buffer.
RECURSIVE splitLines(_, _)
splitLines(buf, cur) ==
  IF buf = <<>> THEN [lines |-> <<>>, rest |-> cur]
  ELSE IF Head(buf).nl
       THEN LET r == splitLines(Tail(buf), <<>>)
            IN [lines |-> <<lineOf(cur)>> \o r.lines, rest |-> r.rest]
       ELSE splitLines(Tail(buf), Append(cur, Head(buf)))

\* ---- Chat's streaming helpers (chat.js) as functions of Chat's fields
\* Chat.appendStreamingTurn(msgId)
appendStreamingTurn(c, msgId) ==
  [c EXCEPT !.userScrolledUp = FALSE, !.scrollHandler = TRUE,
            !.area = Area("cursor", <<>>, <<>>)]

\* Chat._flushStreamRender() at time t
flushStreamRender(c, t) ==
  IF c.pendingStream = NoPending THEN c
  ELSE [c EXCEPT !.pendingStream = NoPending,
                 !.area = Area("stream", c.pendingStream.content, c.pendingStream.thoughts),
                 !.renderLog = Append(@, t)]

\* Chat.updateStreamingContent(msgId, content, thoughts) at time t
updateStreamingContent(c, msgId, content, thoughts, t) ==
  LET queued == [c EXCEPT !.pendingStream =
                    [msgId |-> msgId, content |-> content, thoughts |-> thoughts]]
  IN IF c.streamRenderTimer # 0 THEN queued
     ELSE [flushStreamRender(queued, t) EXCEPT !.streamRenderTimer = t + ThrottleInterval]

\* Chat.showStreamingError(msgId, message)
showStreamingError(c, msgId) == [c EXCEPT !.area = Area("error", <<>>, <<>>)]

\* Chat.finalizeStreaming(). Variant that leaves the timer armed.
finalizeStreamingKeepTimer(c) ==
  [c EXCEPT !.pendingStream = NoPending, !.scrollHandler = FALSE, !.userScrolledUp = FALSE]

\* Variant that leaves the waiting update and the timer alone.
finalizeStreamingKeepPending(c) ==
  [c EXCEPT !.scrollHandler = FALSE, !.userScrolledUp = FALSE]

finalizeStreaming(c) ==
  [c EXCEPT !.pendingStream = NoPending, !.streamRenderTimer = 0,
            !.scrollHandler = FALSE, !.userScrolledUp = FALSE]

\* Chat.render(): the conversation is drawn anew, the streaming area is gone.
renderConversation(c) == [c EXCEPT !.area = Area("none", <<>>, <<>>)]

\* ---- the body of the read loop (app.js)
\* `currentEvent === 'error' || data.error`. Variant that looks at the field only.
errorRecordFieldOnly(ev, data) == data.error # ""

errorRecord(ev, data) == ev = "error" \/ data.error # ""

\* delta.reasoning || delta.reasoning_content || delta.thinking || ''.
\* Variant that knows one name only.
reasoningOfOneName(delta) == delta.reasoning

reasoningOf(delta) ==
  IF delta.reasoning # "" THEN delta.reasoning
  ELSE IF delta.reasoning_content # "" THEN delta.reasoning_content
  ELSE delta.thinking

\* `if (payload === '[DONE]') continue;`. Variant that ends the session in failure.
onTerminatorFail(L) == [L EXCEPT !.failed = TRUE]

onTerminator(L) == L

\* `catch (e) { /* skip invalid JSON */ }`. Variant that gives the session up.
onInvalidJsonFail(L) == [L EXCEPT !.failed = TRUE]

onInvalidJson(L) == L

\* One pass of `for (const line of lines)` over the loop state L: currentEvent,
\* accContent, accThoughts, Chat's fields and whether the function has returned.
processLine(L, line, msgId, t) ==
  IF line.t = "event" THEN [L EXCEPT !.ev = line.name]
  ELSE IF line.t = "blank" THEN [L EXCEPT !.ev = ""]
  ELSE IF line.t # "data" THEN L
  ELSE IF line.payload.kind = "done" THEN onTerminator(L)
  ELSE IF line.payload.kind # "json" THEN onInvalidJson(L)
  ELSE LET data == line.payload.data IN
       IF errorRecord(L.ev, data)
       THEN [L EXCEPT !.failed = TRUE, !.chat = showStreamingError(L.chat, msgId)]
       ELSE IF data.choices = <<>> THEN L
       ELSE LET delta == data.choices[1].delta
                text == delta.content
                reasoning == reasoningOf(delta)
                acc == IF text # "" THEN Append(L.acc, text) ELSE L.acc
                thoughts == IF reasoning # "" THEN Append(L.thoughts, reasoning)
                            ELSE L.thoughts
            IN IF text # "" \/ reasoning # ""
               THEN [L EXCEPT !.acc = acc, !.thoughts = thoughts,
                              !.chat = updateStreamingContent(L.chat, msgId, acc, thoughts, t)]
               ELSE L

\* The for loop: it stops at the `return` of an error record.
RECURSIVE processLines(_, _, _, _)
processLines(L, lines, msgId, t) ==
  IF lines = <<>> \/ L.failed THEN L
  ELSE processLines(processLine(L, Head(lines), msgId, t), Tail(lines), msgId, t)

\* `err.name !== 'AbortError'`. Variant that takes every rejection for a failure.
isFailureAlways(errName) == TRUE

isFailure(errName) == errName # "AbortError"

\* ---- one session, from the callback of its save to its return
HttpStatuses == {200, 500}

\* The user's message has been saved; the response the server will give to the
\* generation request is any status with any of these bodies.
InitStreamWith(bodies) ==
  /\ messages = <<Msg(1, "user", UserText)>>
  /\ branchState = NoBranchState
  /\ isGenerating = FALSE
  /\ abortController = 0
  /\ saves = <<[snap |-> [messages |-> messages, branchState |-> NoBranchState],
               next |-> "generate", mode |-> "submit", anchorId |-> 0,
               state |-> "fulfilled"]>>
  /\ sessions = <<>>
  /\ server = [messages |-> messages, branchState |-> NoBranchState]
  /\ nextId = 2
  /\ lastOp = Op("init", 0, 0)
  /\ actions = 0
  /\ \E status \in HttpStatuses, body \in bodies :
       net = [status |-> status, bytes |-> Bytes(body), sent |-> body]
  /\ chat = ChatIdle
  /\ now = 0
  /\ fit = NoFit
  /\ heap = NoHeap

InitStream == InitStreamWith(Bodies)

\* The save callback calls App.generateResponse(), which also draws the
\* streaming turn.
startStream(k) ==
  /\ saveCallback(k)
  /\ chat' = appendStreamingTurn(chat, nextId)
  /\ UNCHANGED <<net, now>>

\* `await fetch(...)` resolves, whatever the status: the reader and the loop's
\* locals are set up.
responseArrived ==
  /\ Len(sessions) = 1 /\ sessions[1].pc = "fetch"
  /\ sessions' = <<[pc |-> "stream", msgId |-> sessions[1].msgId, acc |-> sessions[1].acc,
                    hadError |-> FALSE, cancelled |-> FALSE, mode |-> sessions[1].mode,
                    anchorId |-> sessions[1].anchorId, saved |-> sessions[1].saved,
                    buffer |-> <<>>, currentEvent |-> "", accThoughts |-> <<>>]>>
  /\ lastOp' = Op("io", 0, 0)
  /\ UNCHANGED <<messages, branchState, isGenerating, abortController, saves, server,
                 nextId, actions, net, chat, now>>

\* The finally clause up to its await, for the session record `sess` and Chat's
\* fields `c` as the try block left them.
finallyStream(op, sess, c, hadError) ==
  /\ isGenerating' = FALSE
  /\ abortController' = 0
  /\ chat' = finalizeStreaming(c)
  /\ IF hadError
     THEN /\ messages' = FilterOut(messages, sess.msgId)
          /\ sessions' = <<>>
          /\ lastOp' = Op(op, sess.msgId, [sess EXCEPT !.pc = "idle", !.hadError = TRUE])
     ELSE /\ messages' = messages
          /\ sessions' = <<[sess EXCEPT !.pc = "resync"]>>
          /\ lastOp' = Op(op, sess.msgId, 0)

\* reader.read() yields the next k pieces: decode, split, run the loop over the
\* complete lines; an error record returns through finally.
readChunk(k) ==
  /\ Len(sessions) = 1 /\ sessions[1].pc = "stream"
  /\ k \in 1..Len(net.bytes)
  /\ LET s == sessions[1]
         split == splitLines(s.buffer \o SubSeq(net.bytes, 1, k), <<>>)
         L == processLines([ev |-> s.currentEvent, acc |-> s.acc, thoughts |-> s.accThoughts,
                            chat |-> chat, failed |-> FALSE],
                           split.lines, s.msgId, now)
         after == [s EXCEPT !.buffer = unfinished(split.rest), !.currentEvent = L.ev,
                            !.acc = L.acc, !.accThoughts = L.thoughts]
     IN /\ net' = [net EXCEPT !.bytes = SubSeq(@, k + 1, Len(@))]
        /\ IF L.failed
           THEN finallyStream("errorRecord", after, L.chat, TRUE)
           ELSE /\ sessions' = <<after>>
                /\ chat' = L.chat
                /\ lastOp' = Op("io", 0, 0)
                /\ UNCHANGED <<messages, isGenerating, abortController>>
  /\ UNCHANGED <<branchState, saves, server, nextId, actions, now>>

\* reader.read() reports done. A request that succeeded has by then been
\* answered in full and the server has stored the model message.
readDone ==
  /\ Len(sessions) = 1 /\ sessions[1].pc = "stream"
  /\ net.bytes = <<>>
  /\ finallyStream("readDone", sessions[1], chat, FALSE)
  /\ IF net.status = 200
     THEN /\ server' = [server EXCEPT !.messages =
                          Append(@, Msg(nextId, "model", sessions[1].acc))]
          /\ nextId' = nextId + 1
     ELSE UNCHANGED <<server, nextId>>
  /\ UNCHANGED <<branchState, saves, actions, net, now>>

\* The catch clause for an exception named errName, then finally.
catchFinally(op, errName) ==
  LET s == [sessions[1] EXCEPT !.cancelled = (errName = "AbortError")] IN
  IF isFailure(errName)
  THEN finallyStream(op, s, showStreamingError(chat, s.msgId), TRUE)
  ELSE finallyStream(op, s, chat, FALSE)

\* fetch or reader.read() rejects: the connection failed.
networkError ==
  /\ Len(sessions) = 1 /\ Running(1)
  /\ catchFinally("networkError", "TypeError")
  /\ UNCHANGED <<branchState, saves, server, nextId, actions, net, now>>

\* The Stop button: App.stopGeneration() aborts, the pending fetch or read
\* rejects with an AbortError. The server may have stored what it had so far.
stopStream ==
  /\ Len(sessions) = 1 /\ Running(1)
  /\ abortController # 0
  /\ catchFinally("stopGeneration", "AbortError")
  /\ \/ UNCHANGED <<server, nextId>>
     \/ /\ server' = [server EXCEPT !.messages =
                        Append(@, Msg(nextId, "model", sessions[1].acc))]
        /\ nextId' = nextId + 1
  /\ UNCHANGED <<branchState, saves, actions, net, now>>

\* The callback of the render timer: clear the handle, flush.
streamRenderTimeout ==
  /\ chat.streamRenderTimer # 0
  /\ chat' = flushStreamRender([chat EXCEPT !.streamRenderTimer = 0], now)
  /\ lastOp' = Op("streamRenderTimeout", 0, 0)
  /\ UNCHANGED <<messages, branchState, isGenerating, abortController, saves, sessions,
                 server, nextId, actions, net, now>>

\* The scroll handler, when the user scrolls away from the bottom.
userScrolls ==
  /\ chat.scrollHandler /\ isGenerating
  /\ ~chat.userScrolledUp
  /\ chat' = [chat EXCEPT !.userScrolledUp = TRUE]
  /\ lastOp' = Op("io", 0, 0)
  /\ UNCHANGED <<messages, branchState, isGenerating, abortController, saves, sessions,
                 server, nextId, actions, net, now>>

\* The re-fetch of the finally clause settles, then Chat.render().
refetched(s) ==
  /\ \/ resyncDone(s)
     \/ resyncFailed(s)
  /\ chat' = renderConversation(chat)
  /\ UNCHANGED <<net, now>>

NextStream ==
  \/ \E k \in 1..Len(saves) : startStream(k) /\ UNCHANGED <<fit, heap>>
  \/ responseArrived /\ UNCHANGED <<fit, heap>>
  \/ \E k \in 1..Len(net.bytes) : readChunk(k) /\ UNCHANGED <<fit, heap>>
  \/ readDone /\ UNCHANGED <<fit, heap>>
  \/ networkError /\ UNCHANGED <<fit, heap>>
  \/ stopStream /\ UNCHANGED <<fit, heap>>
  \/ streamRenderTimeout /\ UNCHANGED <<fit, heap>>
  \/ userScrolls /\ UNCHANGED <<fit, heap>>
  \/ \E s \in 1..Len(sessions) : refetched(s) /\ UNCHANGED <<fit, heap>>

SpecStream == InitStream /\ [][NextStream]_vars

\* The same with a network that answers and a body that comes to its end: the
\* continuations of fetch and of reader.read() run when their promise settles.
FairSpecStream ==
  /\ InitStreamWith(FairBodies) /\ [][NextStream]_vars
  /\ WF_vars((\E k \in 1..Len(saves) : startStream(k)) /\ UNCHANGED <<fit, heap>>)
  /\ WF_vars(responseArrived /\ UNCHANGED <<fit, heap>>)
  /\ WF_vars((\E k \in 1..Len(net.bytes) : readChunk(k)) /\ UNCHANGED <<fit, heap>>)
  /\ WF_vars(readDone /\ UNCHANGED <<fit, heap>>)

\* ---------------------------------------------------------------- the render throttle in time
\* Delta records one session receives.
MaxFragments == 4
\* How long the clock runs, and by how much it advances in one step.
MaxTime == 200
TickMs == 10

\* A session is streaming: the placeholder is drawn, nothing has arrived yet.
InitThrottle ==
  /\ messages = <<Msg(1, "user", UserText), Msg(2, "model", <<>>)>>
  /\ branchState = NoBranchState
  /\ isGenerating = TRUE
  /\ abortController = 2
  /\ saves = <<>>
  /\ sessions = <<[pc |-> "stream", msgId |-> 2, acc |-> <<>>, hadError |-> FALSE,
                   cancelled |-> FALSE, mode |-> "submit", anchorId |-> 0,
                   saved |-> "fulfilled", buffer |-> <<>>, currentEvent |-> "",
                   accThoughts |-> <<>>]>>
  /\ server = [messages |-> <<Msg(1, "user", UserText)>>, branchState |-> NoBranchState]
  /\ nextId = 3
  /\ lastOp = Op("init", 0, 0)
  /\ actions = 0
  /\ net = NoResponse
  /\ chat = appendStreamingTurn(ChatIdle, 2)
  /\ now = 0
  /\ fit = NoFit
  /\ heap = NoHeap

\* A delta record with an answer fragment goes through the loop body at the
\* present time.
fragmentArrives ==
  /\ Len(sessions[1].acc) < MaxFragments
  /\ LET s == sessions[1]
         L == processLine([ev |-> s.currentEvent, acc |-> s.acc, thoughts |-> s.accThoughts,
                           chat |-> chat, failed |-> FALSE],
                          ContentLine("x"), s.msgId, now)
     IN /\ sessions' = <<[s EXCEPT !.acc = L.acc]>>
        /\ chat' = L.chat
        /\ lastOp' = Op("updateStreamingContent", s.msgId, Len(L.acc))
  /\ UNCHANGED <<messages, branchState, isGenerating, abortController, saves, server,
                 nextId, actions, net, now>>

\* Time passes, but not beyond the moment the armed timer is due.
tick ==
  /\ now + TickMs <= MaxTime
  /\ chat.streamRenderTimer = 0 \/ now < chat.streamRenderTimer
  /\ now' = IF chat.streamRenderTimer # 0 /\ now + TickMs > chat.streamRenderTimer
            THEN chat.streamRenderTimer
            ELSE now + TickMs
  /\ lastOp' = Op("io", 0, 0)
  /\ UNCHANGED <<messages, branchState, isGenerating, abortController, saves, sessions,
                 server, nextId, actions, net, chat>>

\* The timer is due: its callback runs.
timerFires ==
  /\ now >= chat.streamRenderTimer
  /\ streamRenderTimeout

NextThrottle ==
  \/ fragmentArrives /\ UNCHANGED <<fit, heap>>
  \/ tick /\ UNCHANGED <<fit, heap>>
  \/ timerFires /\ UNCHANGED <<fit, heap>>

SpecThrottle == InitThrottle /\ [][NextThrottle]_vars

\* ---------------------------------------------------------------- the image fitter (chat.js)
\* Sizes are in hundredths of the limit _getCurrentImageSizeLimit() returns for
\* the models that have one (5 MB); it returns null for the others.
ImageSizeLimit == 100
NullBudget == -1

\* Sizes of the files offered for upload: under, at and over the limit.
OriginalSizes == {60, 100, 120}
\* Sizes the JPEG encoder can produce for a candidate: under 94% of the limit,
\* over 94%, exactly the limit, over the limit.
EncodedSizes == {90, 95, 100, 110}

\* const qualities = [0.9, 0.86, 0.82], in hundredths.
Qualities == <<90, 86, 82>>
\* for (let i = 0; i < 8; i++)
Probes == 8
\* The scale runs from low = 0.1 to high = 1.0; it is counted in steps of
\* 0.9 / 2^8, which every midpoint of 8 bisections is a multiple of.
ScaleSteps == 2 ^ Probes

\* `!maxBytes`
noBudget(maxBytes) == maxBytes = NullBudget \/ maxBytes = 0

\* `candidate.size <= maxBytes` in the search. Variant that accepts any candidate.
candidateFitsAny(size, maxBytes) == TRUE

candidateFits(size, maxBytes) == size <= maxBytes

\* `bestOverall && bestOverall.size >= maxBytes * 0.94`. Variant that never
\* stops early.
closeEnoughNever(bestOverall, maxBytes) == FALSE

closeEnough(bestOverall, maxBytes) ==
  bestOverall # NoFile /\ bestOverall.size * 100 >= maxBytes * 94

\* `this._renderJpegFromImage(img, ...)`: what a probe draws on the canvas.
\* Variant that draws the candidate kept so far.
renderSourceBest(f) == IF f.best # NoFile THEN f.best ELSE f.img

renderSource(f) == f.img

\* `if (best && (!bestOverall || best.size > bestOverall.size))`. Variant
\* that takes the result of every quality level, found or not.
replacesOverallAlways(best, bestOverall) == TRUE

replacesOverall(best, bestOverall) ==
  best # NoFile /\ (bestOverall = NoFile \/ best.size > bestOverall.size)

\* What the candidates of one search have been so far: whether one was within
\* the budget, the first quality level where one was within it, the first
\* where one was within it and at 94% of it or more, and the largest scale at
\* which one of the current quality level was within it.
NothingMet == [within |-> FALSE, firstLevel |-> 0, nearLevel |-> 0, topScale |-> 0]

meet(met, size, maxBytes, q, scale) ==
  IF size > maxBytes THEN met
  ELSE [within |-> TRUE,
        firstLevel |-> IF met.firstLevel = 0 THEN q ELSE met.firstLevel,
        nearLevel |-> IF met.nearLevel = 0 /\ size * 100 >= maxBytes * 94
                      THEN q ELSE met.nearLevel,
        topScale |-> Max(met.topScale, scale)]

\* The buttons of the first modal: Convert, Keep Original (if offered), Skip,
\* and closing it.
FirstChoices(allowKeepOriginal) ==
  {"primary", "tertiary", "cancel"} \cup (IF allowKeepOriginal THEN {"secondary"} ELSE {})

\* The buttons of the second modal: Auto-resize, Skip, and closing it.
SecondChoices == {"primary", "secondary", "cancel"}

\* Chat.uploadFiles (keep-original offered) or Chat.preflightImagesForGenerate
\* (not offered) calls _prepareImageForUpload(file, maxBytes, options).
InitFit ==
  /\ messages = InitChat
  /\ branchState = NoBranchState
  /\ isGenerating = FALSE
  /\ abortController = 0
  /\ saves = <<>>
  /\ sessions = <<>>
  /\ server = [messages |-> messages, branchState |-> NoBranchState]
  /\ nextId = 3
  /\ lastOp = Op("init", 0, 0)
  /\ actions = 0
  /\ net = NoResponse
  /\ chat = ChatIdle
  /\ now = 0
  /\ heap = NoHeap
  /\ \E size \in OriginalSizes, maxBytes \in {NullBudget, ImageSizeLimit},
        allowKeepOriginal \in BOOLEAN :
       fit = [pc |-> "call", file |-> File("original", size, 0), maxBytes |-> maxBytes,
              allowKeepOriginal |-> allowKeepOriginal, result |-> NoFile,
              prompts |-> 0, encodes |-> 0, kept |-> FALSE,
              q |-> 1, i |-> 0, low |-> 0, high |-> ScaleSteps,
              best |-> NoFile, bestOverall |-> NoFile,
              img |-> NoFile, drawn |-> NoFile, candidate |-> NoFile,
              scale |-> 0, bestScale |-> 0, met |-> NothingMet]

\* `return <file or null>` of _prepareImageForUpload.
fitReturn(f, result) == [f EXCEPT !.pc = "done", !.result = result]

\* The first line: no budget, or the file is within it.
fitBegin ==
  /\ fit.pc = "call"
  /\ fit' = IF noBudget(fit.maxBytes) \/ fit.file.size <= fit.maxBytes
            THEN fitReturn(fit, fit.file)
            ELSE [fit EXCEPT !.pc = "firstModal", !.prompts = @ + 1]

\* The user answers the first modal.
firstChoice(choice) ==
  /\ fit.pc = "firstModal"
  /\ choice \in FirstChoices(fit.allowKeepOriginal)
  /\ fit' = IF choice \in {"tertiary", "cancel"} THEN fitReturn(fit, NoFile)
            ELSE IF choice = "secondary" THEN fitReturn([fit EXCEPT !.kept = TRUE], fit.file)
            ELSE [fit EXCEPT !.pc = "convert"]

\* _convertImageToJpeg(file) yields a JPEG of this size.
convertDone(size) ==
  /\ fit.pc = "convert"
  /\ fit' = IF size <= fit.maxBytes
            THEN fitReturn([fit EXCEPT !.encodes = @ + 1], File("jpeg", size, Qualities[1]))
            ELSE [fit EXCEPT !.pc = "secondModal", !.encodes = @ + 1, !.prompts = @ + 1]

\* _convertImageToJpeg(file) throws: the image cannot be decoded or encoded.
convertFails ==
  /\ fit.pc = "convert"
  /\ fit' = fitReturn(fit, NoFile)

\* The user answers the second modal.
secondChoice(choice) ==
  /\ fit.pc = "secondModal"
  /\ choice \in SecondChoices
  /\ fit' = IF choice # "primary" THEN fitReturn(fit, NoFile)
            ELSE [fit EXCEPT !.pc = "load"]

\* _findLargestJpegUnderLimit: _loadImageElement resolves, the search starts.
searchLoaded ==
  /\ fit.pc = "load"
  /\ fit' = [fit EXCEPT !.pc = "search", !.q = 1, !.i = 0, !.low = 0, !.high = ScaleSteps,
                        !.best = NoFile, !.bestOverall = NoFile, !.img = fit.file]

\* One pass of the inner loop with a candidate of this size and, after the 8th
\* pass, the end of the quality level: bestOverall, early stop, next level or
\* return.
probe(size) ==
  /\ fit.pc = "search"
  /\ LET mid == (fit.low + fit.high) \div 2
         candidate == File("resized", size, Qualities[fit.q])
         passes == candidateFits(size, fit.maxBytes)
         probed == [fit EXCEPT !.i = @ + 1, !.encodes = @ + 1,
                       !.drawn = renderSource(fit), !.scale = mid,
                       !.candidate = candidate,
                       !.best = IF passes THEN candidate ELSE @,
                       !.bestScale = IF passes THEN mid ELSE @,
                       !.low = IF passes THEN mid ELSE @,
                       !.high = IF passes THEN @ ELSE mid,
                       !.met = meet(@, size, fit.maxBytes, fit.q, mid)]
         bestOverall == IF replacesOverall(probed.best, fit.bestOverall)
                        THEN probed.best ELSE fit.bestOverall
     IN fit' = IF probed.i < Probes THEN probed
               ELSE IF closeEnough(bestOverall, fit.maxBytes) \/ fit.q = Len(Qualities)
               THEN fitReturn([probed EXCEPT !.bestOverall = bestOverall], bestOverall)
               ELSE [probed EXCEPT !.q = @ + 1, !.i = 0, !.low = 0, !.high = ScaleSteps,
                                   !.best = NoFile, !.bestOverall = bestOverall,
                                   !.bestScale = 0, !.met.topScale = 0]

\* The search throws (the image cannot be loaded, or a candidate cannot be
\* encoded): 'Image resize failed'.
searchFails ==
  /\ fit.pc \in {"load", "search"}
  /\ fit' = fitReturn(fit, NoFile)

NextFit ==
  /\ \/ fitBegin
     \/ \E choice \in {"primary", "secondary", "tertiary", "cancel"} : firstChoice(choice)
     \/ \E size \in EncodedSizes : convertDone(size)
     \/ convertFails
     \/ \E choice \in SecondChoices : secondChoice(choice)
     \/ searchLoaded
     \/ \E size \in EncodedSizes : probe(size)
     \/ searchFails
  /\ UNCHANGED <<messages, branchState, isGenerating, abortController, saves, sessions,
                 server, nextId, lastOp, actions, net, chat, now, heap>>

SpecFit == InitFit /\ [][NextFit]_vars

\* The same with an encoder that answers: canvas.toBlob calls back, the await
\* of the probe resumes.
encoderAnswers ==
  /\ \E size \in EncodedSizes : probe(size)
  /\ UNCHANGED <<messages, branchState, isGenerating, abortController, saves, sessions,
                 server, nextId, lastOp, actions, net, chat, now, heap>>

FairSpecFit == SpecFit /\ WF_vars(encoderAnswers)

\* ---------------------------------------------------------------- the image fitter called with any budget
\* The rest of the application while an image is prepared: nothing in flight.
AppAtRest ==
  /\ messages = InitChat
  /\ branchState = NoBranchState
  /\ isGenerating = FALSE
  /\ abortController = 0
  /\ saves = <<>>
  /\ sessions = <<>>
  /\ server = [messages |-> messages, branchState |-> NoBranchState]
  /\ nextId = 3
  /\ lastOp = Op("init", 0, 0)
  /\ actions = 0
  /\ net = NoResponse
  /\ chat = ChatIdle
  /\ now = 0

\* The locals of one call _prepareImageForUpload(file, maxBytes, options) on
\* behalf of `caller`, before its first line; `uploaded` and `returned` are
\* the caller's.
FitCall(caller, size, maxBytes, allowKeepOriginal) ==
  [pc |-> "call", file |-> File("original", size, 0), maxBytes |-> maxBytes,
   allowKeepOriginal |-> allowKeepOriginal, result |-> NoFile,
   prompts |-> 0, encodes |-> 0, kept |-> FALSE,
   q |-> 1, i |-> 0, low |-> 0, high |-> ScaleSteps,
   best |-> NoFile, bestOverall |-> NoFile,
   img |-> NoFile, drawn |-> NoFile, candidate |-> NoFile,
   scale |-> 0, bestScale |-> 0, met |-> NothingMet,
   caller |-> caller, uploaded |-> NoFile, returned |-> "pending"]

\* The budgets the function accepts: none, zero, the limit.
Budgets == {NullBudget, 0, ImageSizeLimit}

\* _prepareImageForUpload as a function of its three arguments.
InitFitDirect ==
  /\ AppAtRest
  /\ heap = NoHeap
  /\ \E size \in OriginalSizes, maxBytes \in Budgets, allowKeepOriginal \in BOOLEAN :
       fit = FitCall("direct", size, maxBytes, allowKeepOriginal)

SpecFitDirect == InitFitDirect /\ [][NextFit]_vars

\* ---------------------------------------------------------------- the callers of the image fitter
\* Chat.uploadFiles prepares every image picked or dropped, with the current
\* model's limit and keep-original offered. Chat.preflightImagesForGenerate
\* prepares the images of the conversation that exceed the limit, and only if
\* there is a limit, with keep-original not offered.
InitUpload ==
  /\ AppAtRest
  /\ heap = NoHeap
  /\ \/ \E size \in OriginalSizes, maxBytes \in {NullBudget, ImageSizeLimit} :
          fit = FitCall("uploadFiles", size, maxBytes, TRUE)
     \/ \E size \in {sz \in OriginalSizes : sz > ImageSizeLimit} :
          fit = FitCall("preflight", size, ImageSizeLimit, FALSE)

\* uploadFiles after `uploadFile = await this._prepareImageForUpload(...)`:
\* `if (!uploadFile) continue;`, else the upload request, whose answer is ok or
\* not; the file joins App.pendingFiles only if it is.
uploadFilesContinues(ok) ==
  /\ fit.pc = "done"
  /\ fit.caller = "uploadFiles"
  /\ fit' = IF fit.result = NoFile
            THEN [fit EXCEPT !.pc = "end", !.returned = "skipped"]
            ELSE IF ok
            THEN [fit EXCEPT !.pc = "end", !.returned = "pending", !.uploaded = fit.result]
            ELSE [fit EXCEPT !.pc = "end", !.returned = "upload failed"]

\* preflightImagesForGenerate after `prepared = await
\* this._prepareImageForUpload(...)`: false if nothing came back or it is still
\* over the limit, else _uploadPreparedFile, and true if that succeeds.
preflightContinues(ok) ==
  /\ fit.pc = "done"
  /\ fit.caller = "preflight"
  /\ fit' = IF fit.result = NoFile \/ fit.result.size > fit.maxBytes \/ ~ok
            THEN [fit EXCEPT !.pc = "end", !.returned = "false"]
            ELSE [fit EXCEPT !.pc = "end", !.returned = "true", !.uploaded = fit.result]

\* The modal covers the page while a choice is awaited; once the caller has
\* returned the user presses Run, the chat is saved and the continuation calls
\* App.generateResponse().
NextUpload ==
  \/ NextFit
  \/ \E ok \in BOOLEAN : uploadFilesContinues(ok) /\ UNCHANGED <<messages, branchState,
        isGenerating, abortController, saves, sessions, server, nextId, lastOp, actions,
        net, chat, now, heap>>
  \/ \E ok \in BOOLEAN : preflightContinues(ok) /\ UNCHANGED <<messages, branchState,
        isGenerating, abortController, saves, sessions, server, nextId, lastOp, actions,
        net, chat, now, heap>>
  \/ fit.pc = "end" /\ sessions = <<>> /\ submitMessage(0, TRUE) /\ UNCHANGED streamVars
  \/ \E k \in 1..Len(saves) : saveFulfilled(k) /\ UNCHANGED streamVars
  \/ \E k \in 1..Len(saves) : saveCallback(k) /\ UNCHANGED streamVars

SpecUpload == InitUpload /\ [][NextUpload]_vars

\* ---------------------------------------------------------------- the preflight of the conversation's images
\* Attachments in the conversation.
MaxFiles == 2

\* The metadata of an attachment: an image at the limit, an image over it, a
\* file over it that is no image.
Attachments == {File("original", 100, 0), File("original", 120, 0), File("other", 120, 0)}

\* `type.startsWith('image/')`
isImage(f) == f.kind # "other"

\* `!type.startsWith('image/') || size <= maxBytes`. Variant that looks at
\* the first attachment only.
skipsFirstOnly(f, i, maxBytes) == i > 1 \/ ~isImage(f) \/ f.size <= maxBytes

skips(f, i, maxBytes) == ~isImage(f) \/ f.size <= maxBytes

\* The metadata the upload endpoint answers with for a prepared file: a stored
\* image of that size.
uploadedMeta(prepared) == File("uploaded", prepared.size, 0)

\* Chat.preflightImagesForGenerate() is called: `files` are the attachments of
\* all messages in the order the two loops visit them, `k` is the loops'
\* position, `failure` the step that made it return false.
InitPreflight ==
  /\ AppAtRest
  /\ heap = NoHeap
  /\ \E n \in 1..MaxFiles, maxBytes \in {NullBudget, ImageSizeLimit} :
       \E files \in [1..n -> Attachments] :
         fit = [files |-> files, k |-> 1, changed |-> FALSE, failure |-> "none"]
               @@ [FitCall("preflight", 0, maxBytes, FALSE) EXCEPT !.pc = "start"]

\* `return true` / `return false`
preflightReturn(f, value, failure) ==
  [f EXCEPT !.pc = "end", !.returned = value, !.failure = failure]

\* `if (!maxBytes) return true;`
preflightBegin ==
  /\ fit.pc = "start"
  /\ fit' = IF noBudget(fit.maxBytes) THEN preflightReturn(fit, "true", "none")
            ELSE [fit EXCEPT !.pc = "loop"]
  /\ UNCHANGED saves

\* One pass of the loops up to the next await: skip the attachment, or fetch
\* it; after the last one save the chat if a file was replaced, else return
\* true.
preflightLoop ==
  /\ fit.pc = "loop"
  /\ IF fit.k > Len(fit.files)
     THEN IF fit.changed
          THEN /\ saves' = saveChat(messages, branchState, "preflight", "preflight", 0)
               /\ fit' = [fit EXCEPT !.pc = "save"]
          ELSE /\ fit' = preflightReturn(fit, "true", "none")
               /\ UNCHANGED saves
     ELSE /\ fit' = IF skips(fit.files[fit.k], fit.k, fit.maxBytes)
                    THEN [fit EXCEPT !.k = @ + 1]
                    ELSE [fit EXCEPT !.pc = "fetch"]
          /\ UNCHANGED saves

\* The fetch of the stored image settles: _prepareImageForUpload is called on
\* it with allowKeepOriginal false, or the function returns false.
preflightLoaded(ok) ==
  /\ fit.pc = "fetch"
  /\ fit' = IF ok
            THEN [files |-> fit.files, k |-> fit.k, changed |-> fit.changed,
                  failure |-> "none"]
                 @@ FitCall("preflight", fit.files[fit.k].size, fit.maxBytes, FALSE)
            ELSE preflightReturn(fit, "false", "load")
  /\ UNCHANGED saves

\* After `prepared = await this._prepareImageForUpload(...)`: false if nothing
\* came back or it is still over the limit, else _uploadPreparedFile; its
\* answer takes the attachment's place, or the function returns false.
preflightPrepared(ok) ==
  /\ fit.pc = "done"
  /\ fit' = IF fit.result = NoFile THEN preflightReturn(fit, "false", "fit")
            ELSE IF fit.result.size > fit.maxBytes
            THEN preflightReturn(fit, "false", "size")
            ELSE IF ~ok THEN preflightReturn(fit, "false", "upload")
            ELSE [fit EXCEPT !.files[fit.k] = uploadedMeta(fit.result), !.changed = TRUE,
                             !.k = @ + 1, !.pc = "loop"]
  /\ UNCHANGED saves

\* `await App.saveChat()` settles: the function goes on to return true, or
\* the rejection leaves it.
preflightSaved ==
  /\ fit.pc = "save"
  /\ saves # <<>> /\ saves[1].state # "pending"
  /\ saves' = <<>>
  /\ fit' = IF saves[1].state = "fulfilled" THEN preflightReturn(fit, "true", "none")
            ELSE preflightReturn(fit, "threw", "save")

NextPreflight ==
  \/ NextFit /\ fit.pc # "done"
  \/ /\ \/ preflightBegin
        \/ preflightLoop
        \/ \E ok \in BOOLEAN : preflightLoaded(ok)
        \/ \E ok \in BOOLEAN : preflightPrepared(ok)
        \/ preflightSaved
     /\ UNCHANGED <<messages, branchState, isGenerating, abortController, sessions,
                    server, nextId, lastOp, actions, net, chat, now, heap>>
  \/ \E k \in 1..Len(saves) : saveFulfilled(k) /\ UNCHANGED streamVars
  \/ \E k \in 1..Len(saves) : saveRejected(k) /\ UNCHANGED streamVars

SpecPreflight == InitPreflight /\ [][NextPreflight]_vars

\* ---------------------------------------------------------------- successive branch + rerun
\* The previous generation has finished: no save pending, no session left.
GenerationFinished == ~isGenerating /\ sessions = <<>> /\ saves = <<>>

\* The user does nothing but "branch + rerun" from the turn menu, each time
\* once the previous generation has finished, however it ended.
NextFork ==
  \/ \E m \in KnownIds : GenerationFinished /\ branchRerunFrom(m) /\ UNCHANGED streamVars
  \/ \E k \in 1..Len(saves) : saveFulfilled(k) /\ UNCHANGED streamVars
  \/ \E k \in 1..Len(saves) : saveRejected(k) /\ UNCHANGED streamVars
  \/ \E k \in 1..Len(saves) : saveCallback(k) /\ UNCHANGED streamVars
  \/ \E s \in 1..Len(sessions) : fetchResolved(s) /\ UNCHANGED streamVars
  \/ \E s \in 1..Len(sessions) : streamDelta(s) /\ UNCHANGED streamVars
  \/ \E s \in 1..Len(sessions) : streamError(s) /\ UNCHANGED streamVars
  \/ \E s \in 1..Len(sessions) : networkFailure(s) /\ UNCHANGED streamVars
  \/ \E s \in 1..Len(sessions) : streamDone(s) /\ UNCHANGED streamVars
  \/ \E s \in 1..Len(sessions) : resyncDone(s) /\ UNCHANGED streamVars
  \/ \E s \in 1..Len(sessions) : resyncFailed(s) /\ UNCHANGED streamVars

SpecFork == Init /\ [][NextFork]_vars

\* The same user, who may also step back to the previous branch once the
\* generation has finished.
NextForkBack ==
  \/ NextFork
  \/ \E a \in KnownIds : GenerationFinished /\ shiftBranch(a, -1) /\ UNCHANGED streamVars

SpecForkBack == Init /\ [][NextForkBack]_vars

\* ---------------------------------------------------------------- message objects by reference
\* Messages are objects; the live sequence and the stored tails are arrays of
\* references to them. Every array a handler assigns is a fresh one (slice,
\* filter, spread, literal), so arrays are held by value and objects by
\* reference: heap.objs[r] is the object behind reference r.
MaxRefSteps == 3

\* The objects an array of references points to.
Deref(objs, refs) == [i \in 1..Len(refs) |-> objs[refs[i]]]

\* App._clone(array): new objects that hold the same values.
cloneRefs(objs, refs) ==
  [objs |-> objs \o Deref(objs, refs),
   refs |-> [i \in 1..Len(refs) |-> Len(objs) + i]]

\* The conversation as loaded: two objects, both live, no BranchPoint.
InitAlias ==
  /\ AppAtRest
  /\ fit = NoFit
  /\ heap = [objs |-> InitChat, live |-> <<1, 2>>, points |-> NoBranchState,
             nextId |-> 3, steps |-> 0, op |-> "init"]

\* Chat._ensureBranchPoint(anchorId) on references.
ensureBranchPointRef(h, anchorId) ==
  IF hasBranchPoint(h.points, anchorId) THEN h
  ELSE LET anchorIdx == FindIndex(Deref(h.objs, h.live), anchorId)
           oldTail == IF anchorIdx >= 0
                      THEN cloneRefs(h.objs, SliceFrom(h.live, anchorIdx + 1))
                      ELSE [objs |-> h.objs, refs |-> <<>>]
       IN [h EXCEPT !.objs = oldTail.objs,
                    !.points = [a \in DOMAIN h.points \cup {anchorId} |->
                                  IF a = anchorId
                                  THEN [active |-> 0, branches |-> <<Branch(oldTail.refs)>>]
                                  ELSE h.points[a]]]

\* shiftBranch and deleteActiveBranch: tail = App._clone(stored tail), then
\* messages = [...messages.slice(0, anchorIdx + 1), ...tail].
\* Variant that spreads the stored tail itself.
activateShared(h, anchorIdx, tail) ==
  [h EXCEPT !.live = SliceTo(h.live, anchorIdx + 1) \o tail]

activate(h, anchorIdx, tail) ==
  LET copy == cloneRefs(h.objs, tail) IN
  [h EXCEPT !.objs = copy.objs, !.live = SliceTo(h.live, anchorIdx + 1) \o copy.refs]

\* A handler has taken effect.
refStep(h, op) == [h EXCEPT !.steps = @ + 1, !.op = op]

\* Chat.rerunFrom(msgId)
rerunFromRef(msgId) ==
  LET msgs == Deref(heap.objs, heap.live)
      anchorIdx == resolveRerunAnchorIndex(msgs, msgId)
  IN /\ anchorIdx >= 0
     /\ LET anchorId == msgs[anchorIdx + 1].id
            h == ensureBranchPointRef(heap, anchorId)
            point == h.points[anchorId]
        IN heap' = refStep([h EXCEPT !.live = SliceTo(h.live, anchorIdx + 1),
                                     !.points[anchorId].branches[point.active + 1].tail = <<>>],
                           "rerunFrom")

\* Chat.branchRerunFrom(msgId)
branchRerunFromRef(msgId) ==
  LET msgs == Deref(heap.objs, heap.live)
      anchorIdx == resolveRerunAnchorIndex(msgs, msgId)
  IN /\ anchorIdx >= 0
     /\ LET anchorId == msgs[anchorIdx + 1].id
            h == ensureBranchPointRef(heap, anchorId)
            pushed == Append(h.points[anchorId].branches, Branch(<<>>))
        IN heap' = refStep([h EXCEPT !.points[anchorId] =
                                        [active |-> activeAfterPush(pushed), branches |-> pushed],
                                     !.live = SliceTo(h.live, anchorIdx + 1)],
                           "branchRerunFrom")

\* Chat.shiftBranch(anchorId, delta)
shiftBranchRef(anchorId, delta) ==
  /\ hasBranchPoint(heap.points, anchorId)
  /\ LET point == heap.points[anchorId]
         next == shiftTarget(point, delta)
         anchorIdx == FindIndex(Deref(heap.objs, heap.live), anchorId)
         h == [heap EXCEPT !.points[anchorId].active = next]
     IN /\ next >= 0 /\ next < Len(point.branches)
        /\ heap' = refStep(IF anchorIdx = -1 THEN h
                           ELSE activate(h, anchorIdx, activeTail(h.points[anchorId])),
                           "shiftBranch")

\* Chat.deleteActiveBranch(anchorId)
deleteActiveBranchRef(anchorId) ==
  /\ hasBranchPoint(heap.points, anchorId)
  /\ ~deleteRefused(heap.points[anchorId])
  /\ LET point == heap.points[anchorId]
         deleteIdx == point.active
         after == [active |-> Max(0, deleteIdx - 1),
                   branches |-> RemoveAt(point.branches, deleteIdx)]
         anchorIdx == FindIndex(Deref(heap.objs, heap.live), anchorId)
         h == [heap EXCEPT !.points[anchorId] = after]
     IN /\ activeBranchExists(after)
        /\ heap' = refStep(IF anchorIdx = -1 THEN h
                           ELSE activate(h, anchorIdx, activeTail(after)),
                           "deleteActiveBranch")

\* App.updateMessage(msgId, newContent): msg.content = newContent, on the
\* object itself.
updateMessageRef(msgId) ==
  LET idx == FindIndex(Deref(heap.objs, heap.live), msgId) IN
  /\ idx # -1
  /\ heap' = refStep([heap EXCEPT !.objs[heap.live[idx + 1]].content = EditedText],
                     "updateMessage")

\* App.deleteMessage(msgId): messages = messages.filter(m => m.id !== msgId).
deleteMessageRef(msgId) ==
  /\ FindIndex(Deref(heap.objs, heap.live), msgId) # -1
  /\ heap' = refStep([heap EXCEPT !.live = SelectSeq(heap.live,
                                             LAMBDA r : heap.objs[r].id # msgId)],
                     "deleteMessage")

\* addUserTurn(content, []): messages.push({...}) on the live array.
addUserTurnRef ==
  heap' = refStep([heap EXCEPT !.objs = Append(@, Msg(heap.nextId, "user", UserText)),
                               !.live = Append(@, Len(heap.objs) + 1),
                               !.nextId = @ + 1],
                  "addUserTurn")

\* Every id handed out so far.
RefIds == 1..(heap.nextId - 1)

NextAlias ==
  /\ heap.steps < MaxRefSteps
  /\ \/ \E m \in RefIds : rerunFromRef(m)
     \/ \E m \in RefIds : branchRerunFromRef(m)
     \/ \E a \in RefIds, delta \in {-1, 1} : shiftBranchRef(a, delta)
     \/ \E a \in RefIds : deleteActiveBranchRef(a)
     \/ \E m \in RefIds : updateMessageRef(m)
     \/ \E m \in RefIds : deleteMessageRef(m)
     \/ addUserTurnRef
  /\ UNCHANGED <<messages, branchState, isGenerating, abortController, saves, sessions,
                 server, nextId, lastOp, actions, net, chat, now, fit>>

SpecAlias == InitAlias /\ [][NextAlias]_vars

\* ---------------------------------------------------------------- branch navigation
\* How many forks the BranchPoint at U1 has when navigation starts.
MaxForks == 2

\* The BranchPoint at U1 after n branch + reruns (branch 0 holds the original
\* continuation, the forks' tails are empty) and shifts to branch i.
Forked(n, i) ==
  [active |-> i,
   branches |-> <<Branch(SliceFrom(InitChat, 1))>> \o [j \in 1..n |-> Branch(<<>>)]]

\* The conversation [U1, M1] forked n times at U1, at rest on branch i.
InitNav ==
  /\ \E n \in 1..MaxForks, i \in 0..MaxForks :
       /\ i <= n
       /\ branchState = [a \in {1} |-> Forked(n, i)]
       /\ messages = spliceTail(InitChat, 0, clone(activeTail(Forked(n, i))))
  /\ isGenerating = FALSE
  /\ abortController = 0
  /\ saves = <<>>
  /\ sessions = <<>>
  /\ server = [messages |-> messages, branchState |-> branchState]
  /\ nextId = 3
  /\ lastOp = Op("init", 0, 0)
  /\ actions = 0
  /\ net = NoResponse
  /\ chat = ChatIdle
  /\ now = 0
  /\ fit = NoFit
  /\ heap = NoHeap

\* The user walks the branches, deletes branches and deletes messages.
NextNav ==
  \/ \E a \in KnownIds, delta \in {-1, 1} : shiftBranch(a, delta) /\ UNCHANGED streamVars
  \/ \E a \in KnownIds : deleteActiveBranch(a) /\ UNCHANGED streamVars
  \/ \E m \in KnownIds : deleteMessage(m) /\ UNCHANGED streamVars
  \/ \E k \in 1..Len(saves) : saveFulfilled(k) /\ UNCHANGED streamVars
  \/ \E k \in 1..Len(saves) : saveRejected(k) /\ UNCHANGED streamVars

SpecNav == InitNav /\ [][NextNav]_vars

\* ---------------------------------------------------------------- rerun in place, alone
\* The user does nothing but "rerun" from the turn menu, each time once the
\* previous generation has finished, however it ended.
NextRerun ==
  \/ \E m \in KnownIds : GenerationFinished /\ rerunFrom(m) /\ UNCHANGED streamVars
  \/ \E k \in 1..Len(saves) : saveFulfilled(k) /\ UNCHANGED streamVars
  \/ \E k \in 1..Len(saves) : saveRejected(k) /\ UNCHANGED streamVars
  \/ \E k \in 1..Len(saves) : saveCallback(k) /\ UNCHANGED streamVars
  \/ \E s \in 1..Len(sessions) : fetchResolved(s) /\ UNCHANGED streamVars
  \/ \E s \in 1..Len(sessions) : streamDelta(s) /\ UNCHANGED streamVars
  \/ \E s \in 1..Len(sessions) : streamError(s) /\ UNCHANGED streamVars
  \/ \E s \in 1..Len(sessions) : networkFailure(s) /\ UNCHANGED streamVars
  \/ \E s \in 1..Len(sessions) : streamDone(s) /\ UNCHANGED streamVars
  \/ \E s \in 1..Len(sessions) : resyncDone(s) /\ UNCHANGED streamVars
  \/ \E s \in 1..Len(sessions) : resyncFailed(s) /\ UNCHANGED streamVars

SpecRerun == Init /\ [][NextRerun]_vars

\* ---------------------------------------------------------------- properties
UserOps == {"rerunFrom", "branchRerunFrom", "shiftBranch", "deleteActiveBranch",
            "appendMessage", "submitMessage", "stopGeneration"}

IsLive(id) == \E i \in 1..Len(messages) : messages[i].id = id

\* Position (1-based) of the live message with this id.
LivePos(id) == CHOOSE i \in 1..Len(messages) : messages[i].id = id

\* The live messages that follow position i.
LiveAfter(i) == [j \in 1..(Len(messages) - i) |-> messages[i + j]]

SameSeq(a, b) == Len(a) = Len(b) /\ \A i \in 1..Len(a) : a[i] = b[i]

ValidPoint(point) ==
  /\ Len(point.branches) >= 1
  /\ point.active >= 0
  /\ point.active < Len(point.branches)

BranchInv == \A a \in DOMAIN branchState : ValidPoint(branchState[a])

SoleBranchKept ==
  \A a \in DOMAIN branchState :
    (Len(branchState[a].branches) = 1 /\ lastOp'.op = "deleteActiveBranch" /\ lastOp'.id = a)
      => UNCHANGED <<messages, branchState, saves, server>>

\* C1: in every reachable state every BranchPoint has at least one branch and
\* 0 <= active < branches.length, and no deleteActiveBranch step on a BranchPoint
\* with exactly one branch changes anything.
C1_BranchNonLoss == []BranchInv /\ [][SoleBranchKept]_vars

\* C1 witness: a deleteActiveBranch call has just removed a branch and left the
\* BranchPoint with its last one.
C1_Witness ==
  /\ lastOp.op = "deleteActiveBranch"
  /\ lastOp.id \in DOMAIN branchState
  /\ Len(branchState[lastOp.id].branches) = 1

Quiescent == ~isGenerating /\ sessions = <<>> /\ saves = <<>>

\* C2: at every quiescent state (no generation in flight, no save pending), for
\* every BranchPoint whose anchor is live, branches[active].tail equals the live
\* messages after the anchor, element for element.
C2_TailFidelity ==
  Quiescent =>
    \A a \in DOMAIN branchState :
      (IsLive(a) /\ ValidPoint(branchState[a]))
        => SameSeq(activeTail(branchState[a]), LiveAfter(LivePos(a)))

ShiftPost(a, d) ==
  LET pos == LivePos(a)
      stored == branchState[a].branches[branchState[a].active + d + 1].tail
  IN /\ branchState'[a].active = branchState[a].active + d
     /\ branchState'[a].branches = branchState[a].branches
     /\ Len(messages') = pos + Len(stored)
     /\ \A i \in 1..pos : messages'[i] = messages[i]
     /\ \A i \in 1..Len(stored) : messages'[pos + i] = stored[i]

\* C3: a shiftBranch(anchor, delta) step taken with no generation in flight, the
\* target index in range and the anchor live moves active by delta and leaves the
\* live sequence equal to the prefix up to the anchor followed by the stored tail
\* of the newly active branch.
C3_ShiftInstallsTail ==
  [][\A a \in KnownIds, d \in {-1, 1} :
       (/\ lastOp' = Op("shiftBranch", a, d)
        /\ ~isGenerating
        /\ a \in DOMAIN branchState
        /\ branchState[a].active + d >= 0
        /\ branchState[a].active + d < Len(branchState[a].branches)
        /\ IsLive(a))
       => ShiftPost(a, d)]_vars

\* C3 witness: a shiftBranch call has just swapped a stored, non-empty tail in
\* after its live anchor.
C3_Witness ==
  /\ lastOp.op = "shiftBranch"
  /\ IsLive(lastOp.id)
  /\ activeTail(branchState[lastOp.id]) # <<>>
  /\ LivePos(lastOp.id) < Len(messages)

\* r is the 0-based index of the last message of the maximal contiguous run of
\* user messages that starts at 0-based index idx.
IsRunEnd(msgs, idx, r) ==
  /\ r >= idx /\ r < Len(msgs)
  /\ \A j \in idx..r : msgs[j + 1].role = "user"
  /\ (r + 1 = Len(msgs) \/ msgs[r + 2].role # "user")

\* C4: the anchor of a model message is the message before it; the anchor of a
\* user message is the last message of the maximal run of user messages starting
\* at it, so all user messages of one run share their anchor, and the 2nd of 3
\* consecutive user messages resolves to the 3rd.
C4_AnchorResolution ==
  /\ (lastOp.op = "resolveRerunAnchorIndex" /\ lastOp.id <= Len(messages)) =>
       LET idx == lastOp.id - 1 IN
       /\ messages[idx + 1].role = "model" => lastOp.d = idx - 1
       /\ messages[idx + 1].role = "user" => IsRunEnd(messages, idx, lastOp.d)
  /\ \A i, j \in 1..Len(messages) :
       (i <= j /\ \A k \in i..j : messages[k].role = "user")
         => resolveRerunAnchorIndex(messages, i) = resolveRerunAnchorIndex(messages, j)

\* C4 witness: in [U, U, U, M] the action on the 2nd message has resolved to the
\* 3rd (index 2).
C4_Witness ==
  /\ Len(messages) = 4
  /\ \A i \in 1..3 : messages[i].role = "user"
  /\ messages[4].role = "model"
  /\ lastOp = Op("resolveRerunAnchorIndex", 2, 2)

ActiveSessions == {s \in 1..Len(sessions) : Running(s)}

\* C5: at most one generation session is active at any time, and a
\* generateResponse call made while one is active appends no placeholder and
\* issues no request.
C5_SingleSession ==
  /\ [](Cardinality(ActiveSessions) <= 1)
  /\ [][(lastOp'.op = "saveCallback" /\ ActiveSessions # {})
          => (messages' = messages /\ sessions' = sessions /\ nextId' = nextId)]_vars

\* C5 witness: a session is active and the generateResponse call of a second
\* action has just been refused.
C5_Witness ==
  /\ lastOp.op = "saveCallback" /\ lastOp.d = 0
  /\ ActiveSessions # {}

\* C6: while a session is active, rerunFrom, branchRerunFrom, shiftBranch,
\* deleteActiveBranch, appendMessage and submitMessage leave the live sequence
\* and every BranchPoint unchanged.
C6_BusyRefusal ==
  [][(isGenerating /\ lastOp'.op \in UserOps)
       => (messages' = messages /\ branchState' = branchState)]_vars

\* The session the last saveCallback step started.
StartedSession == CHOOSE s \in 1..Len(sessions) : sessions[s].msgId = nextId - 1

\* C7: when the session of a rerun or branch+rerun starts and its anchor is
\* live, the live sequence is the anchor followed by the placeholder: nothing
\* lies between them.
C7_StartsAtAnchor ==
  (/\ lastOp.op = "saveCallback" /\ lastOp.d = 1
   /\ sessions[StartedSession].mode \in {"overwrite", "branch"}
   /\ IsLive(sessions[StartedSession].anchorId))
    => /\ Len(messages) >= 2
       /\ messages[Len(messages)].id = sessions[StartedSession].msgId
       /\ messages[Len(messages) - 1].id = sessions[StartedSession].anchorId

\* C8: the request of a rerun or branch+rerun is issued only after its write of
\* the truncated sequence was fulfilled: every such session started from a
\* fulfilled save, every such save carries the sequence cut at the anchor, and
\* a rejected save starts nothing.
C8_SaveBeforeGenerate ==
  /\ \A s \in 1..Len(sessions) :
       sessions[s].mode \in {"overwrite", "branch"} => sessions[s].saved = "fulfilled"
  /\ \A k \in 1..Len(saves) :
       saves[k].mode \in {"overwrite", "branch"} =>
         /\ saves[k].snap.messages # <<>>
         /\ saves[k].snap.messages[Len(saves[k].snap.messages)].id = saves[k].anchorId

\* C8 witness: the session of a regenerate-in-place is running, started after its
\* save was fulfilled.
C8_Witness ==
  \E s \in 1..Len(sessions) :
    sessions[s].mode = "overwrite" /\ sessions[s].saved = "fulfilled" /\ Running(s)

\* C9: when a session cancelled after N >= 1 fragments has returned, the live
\* conversation holds the placeholder (or the stored copy that replaced it) and
\* its content is the concatenation of those fragments.
C9_CancelKeepsText ==
  (/\ lastOp.op \in {"resyncDone", "resyncFailed"}
   /\ lastOp.d.cancelled
   /\ lastOp.d.acc # <<>>)
    => \E i \in 1..Len(messages) :
         /\ messages[i].id >= lastOp.id
         /\ messages[i].role = "model"
         /\ messages[i].content = lastOp.d.acc

\* C10: a cancelled session does not re-fetch the conversation: no re-fetch of a
\* cancelled session ever replaces the live conversation.
C10_NoResyncOnCancel ==
  lastOp.op = "resyncDone" => ~lastOp.d.cancelled

\* ---------------------------------------------------------------- properties of the response stream
IsJsonLine(line) == line.t = "data" /\ line.payload.kind = "json"

IsDeltaLine(line) == IsJsonLine(line) /\ line.payload.data.choices # <<>>

\* Line i is a record under an "event: error" line: no blank line and no other
\* event line lies between the two.
UnderErrorEvent(lines, i) ==
  \E j \in 1..(i - 1) :
    /\ lines[j] = EventLine("error")
    /\ \A k \in (j + 1)..(i - 1) : lines[k].t \notin {"event", "blank"}

\* Line i is a parsed record that signals an error.
IsErrorAt(lines, i) ==
  /\ IsJsonLine(lines[i])
  /\ (lines[i].payload.data.error # "" \/ UnderErrorEvent(lines, i))

HasError(lines) == \E i \in 1..Len(lines) : IsErrorAt(lines, i)

FirstError(lines) ==
  CHOOSE i \in 1..Len(lines) : IsErrorAt(lines, i) /\ \A j \in 1..(i - 1) : ~IsErrorAt(lines, j)

NonEmpty(x) == x # ""

\* The answer fragments, and the reasoning fragments under every alias, that
\* the delta records of these lines carry, in order.
RECURSIVE AnswerOf(_)
AnswerOf(lines) ==
  IF lines = <<>> THEN <<>>
  ELSE (IF IsDeltaLine(Head(lines))
        THEN SelectSeq(<<Head(lines).payload.data.choices[1].delta.content>>, NonEmpty)
        ELSE <<>>) \o AnswerOf(Tail(lines))

RECURSIVE ReasoningOf(_)
ReasoningOf(lines) ==
  IF lines = <<>> THEN <<>>
  ELSE (IF IsDeltaLine(Head(lines))
        THEN LET d == Head(lines).payload.data.choices[1].delta
             IN SelectSeq(<<d.reasoning, d.reasoning_content, d.thinking>>, NonEmpty)
        ELSE <<>>) \o ReasoningOf(Tail(lines))

\* How many lines of the body the loop has been given so far.
LinesRead == Len(net.sent) - Cardinality({i \in 1..Len(net.bytes) : net.bytes[i].nl})

Streaming == Len(sessions) = 1 /\ sessions[1].pc = "stream"

PlaceholderLive == \E i \in 1..Len(messages) : messages[i].id = lastOp.id

\* What holds when an error record has just ended the session.
FailedAtError ==
  lastOp.op = "errorRecord" =>
    /\ HasError(net.sent)
    /\ LinesRead >= FirstError(net.sent)
    /\ ~PlaceholderLive
    /\ chat.area.kind = "error"
    /\ ~isGenerating /\ abortController = 0 /\ sessions = <<>>
    /\ lastOp.d.acc = AnswerOf(SubSeq(net.sent, 1, FirstError(net.sent) - 1))
    /\ lastOp.d.accThoughts = ReasoningOf(SubSeq(net.sent, 1, FirstError(net.sent) - 1))

\* A session that is still streaming has met no error record.
NoErrorPassed == Streaming => \A i \in 1..LinesRead : ~IsErrorAt(net.sent, i)

\* C11: an explicit error record (error event type or error field) fails the
\* session at once: the placeholder is removed, the error is shown, the
\* controller is idle, the accumulated text is that of the records before the
\* error record, and nothing that is still to arrive changes the conversation
\* or what is shown.
C11_ErrorRecordFails ==
  /\ [](FailedAtError /\ NoErrorPassed)
  /\ [][lastOp.op = "errorRecord" => (messages' = messages /\ chat' = chat)]_vars

\* C11 witness: the error record came after the fragment "Hel" and before the
\* record that carries "lo", which is still unread.
C11_Witness ==
  /\ lastOp.op = "errorRecord"
  /\ lastOp.d.acc = <<"Hel">>
  /\ \E i \in 1..Len(net.bytes) : net.bytes[i] = Piece(ContentLine("lo"), 1)

C13_NonSuccessFails == lastOp.op = "readDone" => net.status = 200

\* The loop's result on a whole body given in one piece: accContent, accThoughts
\* and whether it returned at an error record.
Outcome(lines) ==
  LET L == processLines([ev |-> "", acc |-> <<>>, thoughts |-> <<>>, chat |-> ChatIdle,
                         failed |-> FALSE], lines, 0, 0)
  IN [acc |-> L.acc, thoughts |-> L.thoughts, failed |-> L.failed]

IsTerminator(line) == line = DoneLine
NotTerminator(line) == line # DoneLine
NotMalformed(line) == line # MalformedLine

\* The outcome of the session that has just left the read loop.
SessionOutcome ==
  IF lastOp.op = "errorRecord"
  THEN [acc |-> lastOp.d.acc, thoughts |-> lastOp.d.accThoughts, failed |-> TRUE]
  ELSE [acc |-> sessions[1].acc, thoughts |-> sessions[1].accThoughts, failed |-> FALSE]

\* C14: a stream that closes without an error record, with or without the
\* terminator, ends in success: the placeholder is not removed, no error is
\* shown, the conversation is re-fetched and drawn anew; and the session ends as
\* the same body without its terminator lines would have ended it.
C14_CleanCloseSucceeds ==
  /\ lastOp.op = "readDone" =>
       /\ PlaceholderLive
       /\ chat.area.kind # "error"
       /\ ~isGenerating
       /\ Len(sessions) = 1 /\ sessions[1].pc = "resync" /\ ~sessions[1].hadError
  /\ (lastOp.op = "resyncDone" /\ ~lastOp.d.cancelled /\ net.bytes = <<>>) =>
       /\ messages = server.messages
       /\ chat.area.kind = "none"
  /\ lastOp.op \in {"readDone", "errorRecord"} =>
       SessionOutcome = Outcome(SelectSeq(net.sent, NotTerminator))

\* C14 witness: a body without terminator has closed, and the conversation
\* re-fetched holds the answer "Hel" "lo".
C14_Witness ==
  /\ lastOp.op = "resyncDone" /\ ~lastOp.d.cancelled
  /\ lastOp.d.acc = <<"Hel", "lo">>
  /\ \A i \in 1..Len(net.sent) : net.sent[i] # DoneLine
  /\ messages = server.messages

\* Nothing of a session is left in Chat or App.
CleanWhenIdle ==
  ~isGenerating =>
    /\ abortController = 0
    /\ chat.streamRenderTimer = 0
    /\ chat.pendingStream = NoPending
    /\ ~chat.scrollHandler
    /\ ~chat.userScrolledUp
    /\ \A s \in 1..Len(sessions) : ~Running(s)

\* C15: whenever the session flag is false, the cancellation handle is released,
\* no render timer and no pending render remain, the scroll listener is removed
\* and the sticky-scroll flag is reset, whichever way the session was left; and
\* every started session returns to idle.
C15_FinalizationAlways ==
  /\ []CleanWhenIdle
  /\ (isGenerating ~> ~isGenerating)

\* C15 witness: the session was cancelled with two fragments accumulated and one
\* render made, so with a render pending and the timer armed.
C15_Witness ==
  /\ lastOp.op = "stopGeneration"
  /\ sessions[1].acc = <<"Hel", "lo">>
  /\ Len(chat.renderLog) = 1

\* C16: when a session leaves the read loop without failure (clean end or
\* cancel), the text accumulated so far is what the streaming area shows: a
\* pending update has been rendered.
C16_FlushOnFinalize ==
  (lastOp.op \in {"readDone", "stopGeneration"} /\ Len(sessions) = 1
   /\ sessions[1].acc # <<>>)
    => (chat.area.kind = "stream" /\ chat.area.content = sessions[1].acc)

\* C18: a malformed record is skipped: the session ends, in success or failure
\* and in accumulated answer and reasoning, as the same body without its
\* malformed records would have ended it.
C18_MalformedSkipped ==
  lastOp.op \in {"readDone", "errorRecord"} =>
    SessionOutcome = Outcome(SelectSeq(net.sent, NotMalformed))

\* C18 witness: the body "Hel", malformed, "lo" has been read to its end.
C18_Witness ==
  /\ lastOp.op = "readDone"
  /\ net.sent = <<ContentLine("Hel"), MalformedLine, ContentLine("lo")>>
  /\ sessions[1].acc = <<"Hel", "lo">>

\* C19: when a body has been read to its clean end, the accumulated answer is
\* the concatenation in order of the answer fragments of its delta records and
\* the accumulated reasoning that of the reasoning fragments under any of the
\* three aliases.
C19_Accumulation ==
  lastOp.op = "readDone" =>
    /\ sessions[1].acc = AnswerOf(net.sent)
    /\ sessions[1].accThoughts = ReasoningOf(net.sent)

\* C19 witness: "Hel", "lo", terminator has given "Hel" "lo".
C19_Witness ==
  /\ lastOp.op = "readDone"
  /\ net.sent = <<ContentLine("Hel"), ContentLine("lo"), DoneLine>>
  /\ sessions[1].acc = <<"Hel", "lo">>

\* C17: the first fragment is rendered the moment it arrives, and any two
\* renders of a session lie at least one throttle interval apart.
C17_ThrottledRenders ==
  /\ (lastOp.op = "updateStreamingContent" /\ lastOp.d = 1) => chat.renderLog = <<now>>
  /\ \A i, j \in 1..Len(chat.renderLog) :
       i < j => chat.renderLog[j] - chat.renderLog[i] >= ThrottleInterval

\* ---------------------------------------------------------------- properties of the image fitter
FitDone == fit.pc = "done"
Returned == FitDone /\ fit.result # NoFile
HasBudget == ~noBudget(fit.maxBytes)

\* With no budget, or a file within it, the original comes back and nothing
\* was asked or encoded.
OriginalUntouched ==
  (FitDone /\ (~HasBudget \/ fit.file.size <= fit.maxBytes)) =>
    (fit.result = fit.file /\ fit.prompts = 0 /\ fit.encodes = 0)

\* C20 as stated: the fitter never returns a file larger than the budget,
\* whatever the user chooses and the encoder produces; and with no budget or a
\* file within it the original is returned without prompting or re-encoding.
C20_NeverOverBudget ==
  /\ (Returned /\ HasBudget) => fit.result.size <= fit.maxBytes
  /\ OriginalUntouched

\* C20 amended: the fitter never returns a file larger than the budget except
\* the original itself when the user chose Keep Original, which is offered only
\* when allowKeepOriginal is not false; and with no budget or a file within it
\* the original is returned without prompting or re-encoding.
C20_OverBudgetOnlyIfKept ==
  /\ (Returned /\ HasBudget) =>
       \/ fit.result.size <= fit.maxBytes
       \/ (fit.kept /\ fit.allowKeepOriginal /\ fit.result = fit.file)
  /\ OriginalUntouched

\* C20 witness: an oversized file went through conversion and search and came
\* back resized to exactly the budget.
C20_Witness ==
  /\ Returned
  /\ fit.file.size > fit.maxBytes
  /\ fit.result.kind = "resized"
  /\ fit.result.size = fit.maxBytes

FailingExit ==
  /\ fit'.pc = "done"
  /\ \/ fit.pc = "firstModal" /\ ~fit'.kept
     \/ fit.pc = "convert" /\ fit'.encodes = fit.encodes
     \/ fit.pc = "secondModal"
     \/ fit.pc \in {"load", "search"} /\ fit'.encodes = fit.encodes
     \/ fit.pc = "search" /\ fit'.bestOverall = NoFile

\* On each of them the fitter returns null.
FitterReportsFailure == [][FailingExit => fit'.result = NoFile]_vars

CallerReturned == fit.pc = "end"
GenerationStarted == isGenerating \/ sessions # <<>>

\* After a failure uploadFiles has skipped the file and preflight has
\* returned false; neither has uploaded anything.
CallerDoesNotSubmit ==
  (CallerReturned /\ fit.result = NoFile) =>
    /\ fit.uploaded = NoFile
    /\ fit.caller = "uploadFiles" => fit.returned = "skipped"
    /\ fit.caller = "preflight" => fit.returned = "false"

\* After preflight has returned false no generation starts.
PreflightBlocksGeneration ==
  (CallerReturned /\ fit.caller = "preflight" /\ fit.returned = "false") =>
    ~GenerationStarted

\* C22: whenever the fitter cannot produce a fitting file it reports failure
\* and the caller does not submit the attachment: uploadFiles skips the file,
\* preflightImagesForGenerate returns false and generation does not proceed.
C22_FailureBlocksSubmission ==
  /\ FitterReportsFailure
  /\ []CallerDoesNotSubmit
  /\ []PreflightBlocksGeneration

\* ---------------------------------------------------------------- properties of the branch handlers
\* What an accepted rerunFrom(m) leaves: the live sequence is the prefix that
\* ends with the anchor of m, the anchor's BranchPoint has its active tail
\* empty and is otherwise as before (or new, with one branch), and every other
\* BranchPoint is untouched.
RerunPost(m) ==
  LET n == Len(messages')
      pos == LivePos(m)
  IN /\ n >= 1 /\ n <= Len(messages)
     /\ \A i \in 1..n : messages'[i] = messages[i]
     /\ messages[pos].role = "model" => n = pos - 1
     /\ messages[pos].role = "user" => IsRunEnd(messages, pos - 1, n - 1)
     /\ LET a == messages'[n].id IN
        /\ DOMAIN branchState' = DOMAIN branchState \cup {a}
        /\ \A b \in DOMAIN branchState \ {a} : branchState'[b] = branchState[b]
        /\ activeTail(branchState'[a]) = <<>>
        /\ IF a \in DOMAIN branchState
           THEN /\ Len(branchState'[a].branches) = Len(branchState[a].branches)
                /\ branchState'[a].active = branchState[a].active
                /\ \A j \in 1..Len(branchState[a].branches) :
                     j # branchState[a].active + 1
                       => branchState'[a].branches[j] = branchState[a].branches[j]
           ELSE /\ Len(branchState'[a].branches) = 1
                /\ branchState'[a].active = 0

\* C23: an accepted rerunFrom leaves the live sequence equal to the prefix up
\* to and including the anchor and the active branch's tail empty, while the
\* number of branches, the active index and the tails of the other branches
\* are unchanged.
C23_RerunInPlace ==
  [][\A m \in KnownIds :
       (lastOp' = Op("rerunFrom", m, 0) /\ actions' = actions + 1) => RerunPost(m)]_vars

\* C23 witness: from [U1, M1], rerun(M1) has left the live sequence [U1] and
\* a BranchPoint at U1 whose only branch has an empty tail.
C23_Witness ==
  /\ lastOp = Op("rerunFrom", 2, 0)
  /\ messages = <<InitChat[1]>>
  /\ DOMAIN branchState = {1}
  /\ branchState[1] = [active |-> 0, branches |-> <<Branch(<<>>)>>]

\* The continuation of the conversation after U1 when it was opened.
OriginalContinuation == SliceFrom(InitChat, 1)

\* After n branch + reruns the one BranchPoint is at U1 and has n + 1
\* branches, the last one active and the first one holding the original
\* continuation.
ForkCount ==
  /\ DOMAIN branchState = IF actions = 0 THEN {} ELSE {1}
  /\ \A a \in DOMAIN branchState :
       /\ Len(branchState[a].branches) = actions + 1
       /\ branchState[a].active = actions
       /\ branchState[a].branches[1].tail = OriginalContinuation

\* A branch + rerun on an existing BranchPoint keeps the branches it has.
ForkReuses ==
  \A a \in DOMAIN branchState :
    (lastOp'.op = "branchRerunFrom" /\ actions' = actions + 1) =>
      /\ a \in DOMAIN branchState'
      /\ \A j \in 1..Len(branchState[a].branches) :
           branchState'[a].branches[j] = branchState[a].branches[j]

NoAnchor(id) ==
  \/ ~IsLive(id)
  \/ (LivePos(id) = 1 /\ messages[1].role = "model")

\* Nothing of the conversation, the persistence or the sessions changes.
NothingHappens ==
  UNCHANGED <<messages, branchState, saves, server, sessions, isGenerating,
              abortController, nextId>>

\* C26: branch operations that are not applicable are no-ops: rerunFrom and
\* branchRerunFrom on a message that is not live or on a model message with
\* no message before it, shiftBranch and deleteActiveBranch on an anchor with
\* no BranchPoint, leave the live sequence and the BranchPoints unchanged,
\* save nothing and start no generation.
C26_NotApplicableNoOp ==
  [][\A id \in KnownIds :
       /\ (NoAnchor(id) /\ (rerunFrom(id) \/ branchRerunFrom(id))) => NothingHappens
       /\ (id \notin DOMAIN branchState
             /\ (deleteActiveBranch(id) \/ \E delta \in {-1, 1} : shiftBranch(id, delta)))
            => NothingHappens]_vars

\* C26 witness: the first message was deleted, so the live sequence begins
\* with a model message, one known id is not live and there is no BranchPoint:
\* each of the four handlers has a call that is not applicable.
C26_Witness ==
  /\ lastOp.op = "deleteMessage"
  /\ messages # <<>>
  /\ messages[1].role = "model"
  /\ branchState = NoBranchState
  /\ ~IsLive(lastOp.id)

\* The index shiftBranch(a, delta) aims at is not an index of a branch.
OutOfRange(a, delta) ==
  /\ a \in DOMAIN branchState
  /\ \/ branchState[a].active + delta < 0
     \/ branchState[a].active + delta > Len(branchState[a].branches) - 1

\* C27: shiftBranch(anchor, delta) whose target active + delta lies outside
\* [0, branches.length - 1] is a no-op: the active index, the branches, the
\* live sequence and the persisted state are unchanged.
C27_ShiftOutOfRange ==
  [][\A a \in KnownIds, delta \in {-1, 1} :
       (OutOfRange(a, delta) /\ shiftBranch(a, delta))
         => UNCHANGED <<messages, branchState, saves, server>>]_vars

\* C27 witness: no generation is running, the anchor is live and its
\* BranchPoint has several branches with the last one active, so that
\* shiftBranch(a, 1) aims past the end.
C27_Witness ==
  /\ ~isGenerating
  /\ \E a \in DOMAIN branchState :
       /\ IsLive(a)
       /\ Len(branchState[a].branches) >= 2
       /\ OutOfRange(a, 1)

\* What deleteActiveBranch(a) leaves of a BranchPoint with active index i:
\* branch i is gone, the others keep their order, active is max(0, i - 1),
\* and if the anchor is live the live sequence is the prefix up to it
\* followed by the tail of the branch that is active now.
DeletePost(a) ==
  LET i == branchState[a].active
      old == branchState[a].branches
      new == branchState'[a].branches
      tail == new[branchState'[a].active + 1].tail
  IN /\ Len(new) = Len(old) - 1
     /\ \A j \in 1..Len(new) : new[j] = IF j <= i THEN old[j] ELSE old[j + 1]
     /\ branchState'[a].active = IF i - 1 > 0 THEN i - 1 ELSE 0
     /\ \A b \in DOMAIN branchState \ {a} : branchState'[b] = branchState[b]
     /\ IsLive(a) =>
          LET pos == LivePos(a) IN
          /\ Len(messages') = pos + Len(tail)
          /\ \A k \in 1..pos : messages'[k] = messages[k]
          /\ \A k \in 1..Len(tail) : messages'[pos + k] = tail[k]

\* C28: deleteActiveBranch on a BranchPoint with at least two branches and
\* active index i removes exactly branch i, keeps the other branches and their
\* order, sets active to max(0, i - 1) and makes the live sequence the prefix
\* up to and including the anchor followed by the newly active branch's tail.
C28_DeleteActive ==
  [][\A a \in KnownIds :
       (/\ a \in DOMAIN branchState
        /\ Len(branchState[a].branches) >= 2
        /\ lastOp' = Op("deleteActiveBranch", a, 0)
        /\ actions' = actions + 1)
       => DeletePost(a)]_vars

\* C28 witness: the middle one of three branches was active and has been
\* deleted; the first branch is active now and its tail is live again.
C28_Witness ==
  /\ lastOp = Op("deleteActiveBranch", 1, 0)
  /\ Len(branchState[1].branches) = 2
  /\ branchState[1].active = 0
  /\ actions = 1
  /\ messages = InitChat

\* The generation of a rerun in place has just ended in failure.
RerunFailed ==
  /\ lastOp.op \in {"streamError", "networkFailure"}
  /\ lastOp.d.mode = "overwrite"

\* The state a failed regeneration leaves: no placeholder, the live sequence
\* ends at the anchor, whose BranchPoint is valid and has its active tail
\* empty.
ValidAfterFailure ==
  /\ ~IsLive(lastOp.id)
  /\ messages # <<>>
  /\ messages[Len(messages)].id = lastOp.d.anchorId
  /\ lastOp.d.anchorId \in DOMAIN branchState
  /\ ValidPoint(branchState[lastOp.d.anchorId])
  /\ activeTail(branchState[lastOp.d.anchorId]) = <<>>

\* C29: after a rerun whose generation ends in failure the placeholder is
\* gone, the live sequence ends at the anchor, the active branch's tail is
\* empty and the BranchPoint has at least one branch and a valid active index.
C29_FailedRerunValid == RerunFailed => ValidAfterFailure

\* What the loop has accumulated so far.
Accumulated(sess) == [acc |-> sess.acc, thoughts |-> sess.accThoughts, failed |-> FALSE]

\* While the body is read, the accumulated texts are those of the complete
\* lines received so far, wherever the chunks ended.
OnlyCompleteLines ==
  (Len(sessions) = 1 /\ sessions[1].pc = "stream") =>
    Accumulated(sessions[1]) = Outcome(SubSeq(net.sent, 1, LinesRead))

\* When the loop is left, the outcome is the one of the body read in one
\* chunk.
SameAsOneChunk ==
  lastOp.op \in {"readDone", "errorRecord"} => SessionOutcome = Outcome(net.sent)

\* C30: the accumulated answer and reasoning do not depend on how the
\* response is split into read chunks: only complete lines are parsed, a
\* partial line waits in the buffer for its newline, and every chunking of a
\* stream gives the records and the final texts of the stream read at once.
C30_ChunkIndependence == OnlyCompleteLines /\ SameAsOneChunk

\* C30 witness: a chunk has ended inside the second line of "Hel", "lo",
\* terminator: the first fragment is accumulated, half a line is buffered.
C30_Witness ==
  /\ Len(sessions) = 1
  /\ sessions[1].pc = "stream"
  /\ net.sent = <<ContentLine("Hel"), ContentLine("lo"), DoneLine>>
  /\ sessions[1].acc = <<"Hel">>
  /\ sessions[1].buffer = <<Piece(ContentLine("lo"), 1)>>

\* The first terminator among the first n lines of a body.
TerminatorRead(lines, n) == \E i \in 1..n : lines[i] = DoneLine

FirstTerminator(lines) ==
  CHOOSE i \in 1..Len(lines) : lines[i] = DoneLine /\ \A j \in 1..(i - 1) : lines[j] # DoneLine

\* C31: the terminator marks the end of the stream: once it has been parsed,
\* the accumulated answer and reasoning stay those of the records before it,
\* whatever record the same stream delivers afterwards.
C31_TerminatorEndsStream ==
  (Streaming /\ TerminatorRead(net.sent, LinesRead)) =>
    LET before == SubSeq(net.sent, 1, FirstTerminator(net.sent) - 1)
    IN /\ sessions[1].acc = AnswerOf(before)
       /\ sessions[1].accThoughts = ReasoningOf(before)

\* ---------------------------------------------------------------- properties of the finished session
\* The last thing that happened is a user action that changes the
\* conversation; a session whose finally clause has run (flag false, re-fetch
\* awaited) set lastOp before it, so the action began after the flag fell.
ActedAfterIdle(s) ==
  /\ sessions[s].pc = "resync"
  /\ ~isGenerating
  /\ lastOp.op \in {"submitMessage", "rerunFrom", "branchRerunFrom", "shiftBranch"}

\* C40: once a session has set the session flag to false it writes the live
\* conversation no more: what a user action that began afterwards has made
\* of the live sequence and the BranchPoints is not replaced when the
\* session's re-fetch returns.
C40_FinishedSessionWritesNothing ==
  [][\A s \in 1..Len(sessions) :
       (ActedAfterIdle(s) /\ resyncDone(s)) => UNCHANGED <<messages, branchState>>]_vars

\* ---------------------------------------------------------------- properties of the error display
\* The streaming area shows the error of a failed session.
ErrorShown == chat.area.kind = "error"

\* C39: once a session has shown an error inline, no throttled render of its
\* accumulated text runs: the update that was waiting and the timer that was
\* pending at the error are discarded with it, so the timer's callback never
\* runs and the error stays on display.
C39_NoRenderAfterError ==
  /\ [](ErrorShown =>
          /\ chat.streamRenderTimer = 0
          /\ chat.pendingStream = NoPending
          /\ sessions = <<>>)
  /\ [][ErrorShown => (lastOp'.op # "streamRenderTimeout" /\ chat'.area = chat.area)]_vars

\* C39 witness: "Hel" was rendered and armed the timer, "lo" was waiting for it
\* when the error record arrived.
C39_Witness ==
  /\ ErrorShown
  /\ lastOp.op = "errorRecord"
  /\ lastOp.d.acc = <<"Hel", "lo">>
  /\ Len(chat.renderLog) = 1

\* ---------------------------------------------------------------- properties of the size search
\* _findLargestJpegUnderLimit has run to its `return bestOverall`.
SearchReturned == FitDone /\ fit.i = Probes

Searching == fit.pc = "search"

\* A candidate has been probed at the current quality level.
Probed == (Searching \/ SearchReturned) /\ fit.i > 0

\* C32: the size search returns failure or a candidate whose size is at most
\* the budget; a candidate of exactly the budget passes (it is kept as the
\* level's best when it is probed); and failure is returned only when no
\* candidate probed at any quality level was within the budget.
C32_SearchWithinBudget ==
  /\ SearchReturned =>
       /\ fit.result = fit.bestOverall
       /\ fit.result # NoFile => fit.result.size <= fit.maxBytes
       /\ fit.result = NoFile => ~fit.met.within
  /\ (Probed /\ fit.candidate.size = fit.maxBytes) => fit.best = fit.candidate

\* C32 witness: the search has returned a candidate of exactly the budget
\* after a quality level where a smaller candidate had passed.
C32_Witness ==
  /\ SearchReturned
  /\ fit.result.size = fit.maxBytes
  /\ fit.result.quality = Qualities[2]
  /\ fit.candidate.size > fit.maxBytes

\* The encodes of the search so far; the conversion before it was one more.
SearchEncodes == fit.encodes - 1

\* The probes made so far are 8 for each quality level left behind and those
\* of the current one, at most 3 levels in all.
ProbeCount ==
  (Searching \/ SearchReturned) =>
    /\ fit.q \in 1..3
    /\ fit.i \in 0..8
    /\ SearchEncodes = 8 * (fit.q - 1) + fit.i
    /\ SearchEncodes <= 24
    /\ SearchReturned => SearchEncodes = 8 * fit.q

\* Every probe draws the original file at a scale between minScale (step 0)
\* and 1.0 (the last step).
ProbeFromOriginal ==
  Probed => (fit.drawn = fit.file /\ fit.scale \in 0..ScaleSteps)

\* The level's best is the candidate that was within the budget at the
\* largest scale, if there was one.
BestIsLargestPassing ==
  Probed =>
    /\ fit.best = NoFile <=> fit.met.topScale = 0
    /\ fit.best # NoFile =>
         (fit.bestScale = fit.met.topScale /\ fit.best.size <= fit.maxBytes)

\* C33: the size search terminates; it makes exactly 8 probes for each
\* quality level it tries and tries at most 3 (24 encodes at most); every
\* probe encodes the original image, at a scale within [minScale, 1.0]; and
\* the candidate retained within a quality level is the passing probe of the
\* largest scale.
C33_SearchTerminates ==
  /\ [](ProbeCount /\ ProbeFromOriginal /\ BestIsLargestPassing)
  /\ Searching ~> FitDone

\* C33 witness: the search has returned after 24 probes, and its last level
\* retained a candidate that was not the last one probed.
C33_Witness ==
  /\ SearchReturned
  /\ SearchEncodes = 24
  /\ fit.best # NoFile
  /\ fit.candidate # fit.best
  /\ fit.bestScale < fit.scale

\* The quality levels are tried from the highest down.
Descending ==
  /\ \A a, b \in 1..Len(Qualities) : a < b => Qualities[a] > Qualities[b]
  /\ Probed => fit.candidate.quality = Qualities[fit.q]

\* A size of at least 94% of the budget.
Near(size) == size * 100 >= fit.maxBytes * 94

\* C34 as stated: quality levels are tried in descending order; once a
\* passing candidate has reached 94% of the budget no lower quality level is
\* probed, and if none has, every quality level is tried.
C34_StopsOnceNear ==
  /\ Descending
  /\ ((Searching \/ SearchReturned) /\ fit.met.nearLevel # 0) => fit.q = fit.met.nearLevel
  /\ (SearchReturned /\ fit.met.nearLevel = 0) => fit.q = Len(Qualities)

\* C34: quality levels are tried in descending order; once the candidate
\* retained at the end of a quality level has reached 94% of the budget no
\* lower quality level is probed, and if no retained candidate has, every
\* quality level is tried.
C34_StopsOnceRetainedNear ==
  /\ Descending
  /\ (Searching /\ fit.bestOverall # NoFile) => ~Near(fit.bestOverall.size)
  /\ (SearchReturned /\ fit.q < Len(Qualities)) =>
       (fit.result # NoFile /\ Near(fit.result.size))

\* C34 witness: the search has stopped after the second quality level, whose
\* candidate reached 94% of the budget when the first level's had not.
C34_Witness ==
  /\ SearchReturned
  /\ fit.q = 2
  /\ fit.met.firstLevel = 1
  /\ fit.result.quality = Qualities[2]
  /\ Near(fit.result.size)

\* C35: the search prefers higher quality at smaller scale: when candidates
\* passed at a higher and at a lower quality level, the one returned is that
\* of the higher level, the first level where a candidate passed.
C35_HigherQualityPreferred ==
  (SearchReturned /\ fit.met.firstLevel # 0) =>
    fit.result.quality = Qualities[fit.met.firstLevel]

\* ---------------------------------------------------------------- properties of the preflight
PreflightReturned(value) == fit.pc = "end" /\ fit.returned = value

\* An image attachment over the budget.
Oversized(f) == isImage(f) /\ f.size > fit.maxBytes

\* C36: in the preflight keep-original is never offered nor taken;
\* preflightImagesForGenerate returns true only when every image attachment
\* of the conversation is within the budget on return; and it returns false
\* at the first oversized image that could not be loaded, fitted or uploaded
\* again: that image is still oversized, those before it are within the
\* budget and none after it has been replaced.
C36_PreflightTrueMeansFitted ==
  /\ ~fit.allowKeepOriginal /\ ~fit.kept
  /\ (PreflightReturned("true") /\ HasBudget) =>
       \A i \in 1..Len(fit.files) : ~Oversized(fit.files[i])
  /\ PreflightReturned("false") =>
       /\ fit.failure \in {"load", "fit", "upload"}
       /\ fit.k \in 1..Len(fit.files)
       /\ Oversized(fit.files[fit.k])
       /\ \A i \in 1..(fit.k - 1) : ~Oversized(fit.files[i])
       /\ \A i \in (fit.k + 1)..Len(fit.files) : fit.files[i].kind # "uploaded"
  /\ (fit.pc = "end" /\ fit.failure \in {"load", "fit", "upload"}) => fit.returned = "false"

\* C36 witness: two oversized images have been fitted and uploaded again, the
\* chat has been saved and true returned.
C36_Witness ==
  /\ PreflightReturned("true")
  /\ fit.changed
  /\ Len(fit.files) = 2
  /\ \A i \in 1..2 : fit.files[i].kind = "uploaded" /\ fit.files[i].size <= fit.maxBytes

\* ---------------------------------------------------------------- properties of the branch handlers without anchor
\* C37: when the anchor message of a BranchPoint is no longer in the live
\* sequence, shiftBranch and deleteActiveBranch on that anchor are no-ops: the
\* active index, the branches and the live sequence stay as they are.
C37_DeletedAnchorNoOp ==
  [][\A a \in DOMAIN branchState :
       (~IsLive(a) /\ (deleteActiveBranch(a) \/ \E delta \in {-1, 1} : shiftBranch(a, delta)))
         => UNCHANGED <<branchState, messages>>]_vars

Refs(refs) == {refs[i] : i \in 1..Len(refs)}

\* The objects some stored tail points to.
StoredRefs ==
  UNION {UNION {Refs(heap.points[a].branches[j].tail) :
                  j \in 1..Len(heap.points[a].branches)} : a \in DOMAIN heap.points}

\* No object is both live and in a stored tail.
NoSharedObject == Refs(heap.live) \cap StoredRefs = {}

\* The stored tails by value.
StoredTails(h) ==
  [a \in DOMAIN h.points |->
     [j \in 1..Len(h.points[a].branches) |-> Deref(h.objs, h.points[a].branches[j].tail)]]

\* Editing, deleting or appending a live message changes no stored tail.
LiveEditKeepsTails ==
  (heap'.steps = heap.steps + 1 /\ heap'.op \in {"updateMessage", "deleteMessage", "addUserTurn"})
    => StoredTails(heap') = StoredTails(heap)

\* A rerun, which truncates the live sequence and empties the active tail,
\* changes no other stored tail and no live message it keeps.
TruncationKeepsOthers ==
  (heap'.steps = heap.steps + 1 /\ heap'.op = "rerunFrom") =>
    /\ \A a \in DOMAIN heap.points :
         \A j \in 1..Len(heap.points[a].branches) :
           StoredTails(heap')[a][j] \in {StoredTails(heap)[a][j], <<>>}
    /\ \A i \in 1..Len(heap'.live) :
         heap'.objs[heap'.live[i]] = heap.objs[heap.live[i]]

\* C25: stored tails share no object with the live sequence: after a capture
\* or an activation, truncating, editing or deleting live messages changes no
\* stored tail of any branch, and a change of a stored tail changes no live
\* message.
C25_NoAliasing ==
  /\ []NoSharedObject
  /\ [][LiveEditKeepsTails /\ TruncationKeepsOthers]_vars

\* C25 witness: a tail was captured and activated again, then the live copy
\* of a message was edited; the stored copy of the same message keeps the
\* old content.
C25_Witness ==
  /\ heap.op = "updateMessage"
  /\ \E r \in Refs(heap.live), t \in StoredRefs :
       /\ heap.objs[r].id = heap.objs[t].id
       /\ heap.objs[r].content = EditedText
       /\ heap.objs[t].content # EditedText

====
